---- MODULE Spec2Model ----
(***************************************************************************)
(* The credential-and-token subsystem of the Sunrisers property listing    *)
(* backend: the users table (backend/app/models.py), password checking,    *)
(* JWT issuance and resolution (backend/app/auth.py) and the /auth         *)
(* endpoints (backend/app/api/auth.py).                                    *)
(*                                                                         *)
(* Time is counted in ticks of 1/TicksPerSecond second, because the JWT    *)
(* "exp" claim and the clock python-jose compares it with are both cut to  *)
(* whole seconds while datetime.now() is not.                              *)
(***************************************************************************)
EXTENDS Integers, FiniteSets, Sequences, TLC

----------------------------------------------------------------------------
(* Bounds of the model *)

MaxUsers == 2
MaxTokens == 1
TicksPerSecond == 2
MaxExtraSeconds == 1
MaxLifetimes == 1
MaxProperties == 1
MaxMeasurements == 1
MaxDescriptions == 1
MaxWorkers == 2

----------------------------------------------------------------------------
(* Program constants *)

SECRET_KEY == "your-secret-key-here-change-in-production"
OTHER_KEY == "some-other-secret"
ACCESS_TOKEN_EXPIRE_MINUTES == 30
DEFAULT_EXPIRE_MINUTES == 15

Roles == {"admin", "agent", "client"}

(* Input alphabets.  A username is any string, an email-shaped one         *)
(* included (schemas.UserBase.username: str); an email must be email-      *)
(* shaped (EmailStr).                                                      *)
Emails == {"a@x.io", "b@x.io"}
Usernames == {"al"} \cup {"a@x.io"}
Identifiers == Usernames \cup Emails
Passwords == {"pw1", "pw2"}

NoTime == 0 - 1
NoUser == 0
NoSub == "<no sub>"

SecondsToTicks(s) == s * TicksPerSecond
TtlTicks == SecondsToTicks(ACCESS_TOKEN_EXPIRE_MINUTES * 60)
MaxNow == MaxLifetimes * TtlTicks + SecondsToTicks(MaxExtraSeconds)

----------------------------------------------------------------------------
(* Password Hasher: passlib CryptContext(bcrypt).  A digest is not the     *)
(* plaintext; verify recomputes the digest of the candidate.               *)

get_password_hash(password) == [scheme |-> "bcrypt", of |-> password]

verify_password_always(plain_password, hashed_password) == TRUE

verify_password(plain_password, hashed_password) ==
    hashed_password = get_password_hash(plain_password)

----------------------------------------------------------------------------
(* Token Codec: python-jose jwt.encode / jwt.decode with HS256.            *)

(* timegm(dt.utctimetuple()): a datetime cut to whole seconds. *)
timegm(tick) == tick \div TicksPerSecond

Hmac(key, sub, exp) == [key |-> key, sub |-> sub, exp |-> exp, flipped |-> FALSE]

jwt_encode(sub, exp, key) ==
    [wellformed |-> TRUE, sub |-> sub, exp |-> exp, mac |-> Hmac(key, sub, exp)]

Garbage ==
    [wellformed |-> FALSE, sub |-> NoSub, exp |-> 0, mac |-> Hmac(OTHER_KEY, NoSub, 0)]

NoToken ==
    [wellformed |-> FALSE, sub |-> NoSub, exp |-> 0 - 1, mac |-> Hmac(OTHER_KEY, NoSub, 0 - 1)]

create_access_token(sub, nowTick, expires_minutes) ==
    LET delta == IF expires_minutes # 0 THEN expires_minutes ELSE DEFAULT_EXPIRE_MINUTES
        expire == nowTick + SecondsToTicks(delta * 60)
    IN  jwt_encode(sub, timegm(expire), SECRET_KEY)

(* jwt.decode: the structure first, then the signature, then "exp"        *)
(* against the clock cut to whole seconds (jose: exp < now is expired).    *)
jwt_expired_at_the_second(exp, nowTick) == exp <= timegm(nowTick)

jwt_expired(exp, nowTick) == exp < timegm(nowTick)

signature_ok_unverified(token, key) == TRUE

signature_ok(token, key) == token.mac = Hmac(key, token.sub, token.exp)

jwt_decode_expiry_first(token, key, nowTick) ==
    IF ~token.wellformed THEN [ok |-> FALSE, err |-> "Malformed", sub |-> NoSub]
    ELSE IF jwt_expired(token.exp, nowTick) THEN [ok |-> FALSE, err |-> "Expired", sub |-> NoSub]
    ELSE IF ~signature_ok(token, key) THEN [ok |-> FALSE, err |-> "BadSignature", sub |-> NoSub]
    ELSE [ok |-> TRUE, err |-> "", sub |-> token.sub]

jwt_decode(token, key, nowTick) ==
    IF ~token.wellformed THEN [ok |-> FALSE, err |-> "Malformed", sub |-> NoSub]
    ELSE IF ~signature_ok(token, key) THEN [ok |-> FALSE, err |-> "BadSignature", sub |-> NoSub]
    ELSE IF jwt_expired(token.exp, nowTick) THEN [ok |-> FALSE, err |-> "Expired", sub |-> NoSub]
    ELSE [ok |-> TRUE, err |-> "", sub |-> token.sub]

----------------------------------------------------------------------------
(* State *)

VARIABLES
    users,          \* the users table: a set of rows
    nextId,         \* the next value of the users.id sequence
    now,            \* the wall clock, in ticks
    issued,         \* tokens handed out by login and refresh, with the
                    \* identity and the instant of issuance
    last,           \* the last request and its response; uid is the identity
                    \* authenticate_user or get_current_user handed to the
                    \* handler, why the branch that rejected the request
    expiredSeen,    \* tokens that a resolution has rejected as expired
    lastResolved,   \* per id, the instant of its latest successful resolution
    properties,     \* the properties table
    measurements,   \* the measurements table
    descriptions,   \* the property_descriptions table
    uploads,        \* the files under uploads/<property_id>/
    seq,            \* the id sequences of the three resource tables
    inflight,       \* per worker, the registration request it is serving
    pwChanged,      \* per id, the old and the new password of its latest
                    \* successful password change
    outlived,       \* issued tokens whose identity has since changed its
                    \* password or been issued another token
    sessions        \* per worker, the request it is serving statement by
                    \* statement and what its ORM session has loaded

resourceVars == <<properties, measurements, descriptions, uploads, seq>>

vars == <<users, nextId, now, issued, last, expiredSeen, lastResolved,
          properties, measurements, descriptions, uploads, seq,
          inflight, pwChanged, outlived, sessions>>

UserIds == 1..MaxUsers

(* A row of users holds the columns of models.User that a handler reads   *)
(* or writes; "" stands for a profile column that is NULL.                 *)
NoRow ==
    [id |-> NoUser, username |-> "", email |-> "",
     hashed_password |-> get_password_hash(""), role |-> "client",
     is_active |-> FALSE, last_login |-> NoTime, is_verified |-> FALSE,
     first_name |-> "", last_name |-> "", phone_number |-> "",
     profile_image_url |-> "", updated_at |-> NoTime]

(* models.User(...) as register_user builds it, with the defaults of the   *)
(* columns: is_active True, is_verified False, updated_at now().           *)
NewUser(id, username, email, password, role) ==
    [id |-> id, username |-> username, email |-> email,
     hashed_password |-> get_password_hash(password), role |-> role,
     is_active |-> TRUE, last_login |-> NoTime, is_verified |-> FALSE,
     first_name |-> "", last_name |-> "", phone_number |-> "",
     profile_image_url |-> "", updated_at |-> now]

(* No row of property_descriptions. *)
NoDescription ==
    [id |-> 0, property_id |-> 0, created_by_id |-> NoUser,
     is_active |-> FALSE, is_approved |-> FALSE, approved_by_id |-> NoUser,
     view_count |-> 0, title_suggestion |-> ""]

(* filter((User.username == s) | (User.email == s)) *)
ByUsernameOrEmail(s) == {u \in users : u.username = s \/ u.email = s}

(* Query.first() on a query without ORDER BY: any matching row, or None. *)
First(rows) == IF rows = {} THEN {NoRow} ELSE rows

(* The arguments of a request besides its credentials: the identity the    *)
(* dependency resolved (caller), the roles a role check allows, what the   *)
(* request is about (target: the id of a property, the minutes of a        *)
(* lifetime) and the proposed password of a password change.               *)
NoArg == [caller |-> NoUser, allowed |-> {}, target |-> 0, new |-> ""]

Response(op, ident, pw, tok, status, detail, uid, out, why) ==
    [op |-> op, ident |-> ident, pw |-> pw, tok |-> tok, status |-> status,
     detail |-> detail, uid |-> uid, out |-> out, why |-> why, arg |-> NoArg,
     body |-> {}]

(* schemas.UserOut: the columns of a row that a response_model=UserOut     *)
(* endpoint serialises.                                                    *)
UserOut_all_columns(user) == user

UserOut(user) ==
    [id |-> user.id, email |-> user.email, username |-> user.username,
     first_name |-> user.first_name, last_name |-> user.last_name,
     phone_number |-> user.phone_number, role |-> user.role,
     profile_image_url |-> user.profile_image_url,
     is_active |-> user.is_active, is_verified |-> user.is_verified,
     updated_at |-> user.updated_at]

(* A 200 whose body is the rows of a query serialised as UserOut. *)
WithUsers(response, rows) ==
    [response EXCEPT !.body = {UserOut(u) : u \in rows}]

Idle == Response("idle", "", "", NoToken, 0, "", NoUser, NoToken, "")

Workers == 1..MaxWorkers

(* A worker that serves no registration request. *)
NoRequest ==
    [pc |-> "idle", op |-> "", username |-> "", email |-> "", password |-> "",
     role |-> "client"]

NoChange == [changed |-> FALSE, old |-> "", new |-> ""]

(* A worker that serves no request statement by statement.  user and       *)
(* description are the rows as the request last read them, locked the ids  *)
(* of the descriptions its open transaction has updated.                   *)
NoSession ==
    [pc |-> "idle", op |-> "", token |-> NoToken, current_password |-> "",
     new_password |-> "", user |-> NoRow, description |-> NoDescription,
     target |-> 0, locked |-> {}]

Init ==
    /\ users = {}
    /\ nextId = 1
    /\ now = 0
    /\ issued = {}
    /\ last = Idle
    /\ expiredSeen = {}
    /\ lastResolved = [i \in UserIds |-> NoTime]
    /\ properties = {}
    /\ measurements = {}
    /\ descriptions = {}
    /\ uploads = {}
    /\ seq = [properties |-> 1, measurements |-> 1, descriptions |-> 1]
    /\ inflight = [w \in Workers |-> NoRequest]
    /\ pwChanged = [i \in UserIds |-> NoChange]
    /\ outlived = {}
    /\ sessions = [w \in Workers |-> NoSession]

----------------------------------------------------------------------------
(* POST /auth/register *)

RegisterUser(username, email, password, role) ==
    LET existing == {u \in users : u.email = email \/ u.username = username} IN
    IF existing # {}
    THEN /\ last' = Response("register", "", "", NoToken, 400,
                             "Email or username already registered",
                             NoUser, NoToken, "")
         /\ UNCHANGED <<users, nextId, now, issued, expiredSeen, lastResolved>>
         /\ UNCHANGED <<resourceVars, inflight, sessions, pwChanged, outlived>>
    ELSE /\ nextId <= MaxUsers
         /\ users' = users \cup {NewUser(nextId, username, email, password, role)}
         /\ nextId' = nextId + 1
         /\ last' = WithUsers(Response("register", "", "", NoToken, 200, "",
                                       nextId, NoToken, ""),
                              {NewUser(nextId, username, email, password, role)})
         /\ UNCHANGED <<now, issued, expiredSeen, lastResolved>>
         /\ UNCHANGED <<resourceVars, inflight, sessions, pwChanged, outlived>>

----------------------------------------------------------------------------
(* POST /auth/register and POST /users/ served by concurrent workers: the  *)
(* lookup of an existing row and the insert are separate statements, and   *)
(* requests of other workers run between them.                             *)

(* unique=True on users.email and users.username: the insert of a row      *)
(* whose email or username is in the table fails with an IntegrityError.   *)
unique_violation_unenforced(username, email) == FALSE

unique_violation(username, email) ==
    \E u \in users : u.email = email \/ u.username = username

LeaveOthers ==
    /\ UNCHANGED <<now, issued, expiredSeen, lastResolved>>
    /\ UNCHANGED <<resourceVars, pwChanged, outlived, sessions>>

(* The handler up to its lookup: db.query(User).filter(...).first() *)
LookupExisting(w, op, username, email, password, role) ==
    /\ inflight[w].pc = "idle"
    /\ IF \E u \in users : u.email = email \/ u.username = username
       THEN /\ last' = Response(op, username, "", NoToken, 400,
                                "Email or username already registered",
                                NoUser, NoToken, "")
            /\ UNCHANGED inflight
       ELSE /\ inflight' = [inflight EXCEPT ![w] =
                    [pc |-> "checked", op |-> op, username |-> username,
                     email |-> email, password |-> password, role |-> role]]
            /\ last' = Idle
    /\ UNCHANGED <<users, nextId>>
    /\ LeaveOthers

(* register_user from models.User(...) to the return: db.add, db.commit *)
RegisterUserCommit(w) ==
    LET req == inflight[w] IN
    /\ req.pc = "checked"
    /\ req.op = "register_user"
    /\ IF unique_violation(req.username, req.email)
       THEN /\ last' = Response(req.op, req.username, "", NoToken, 500,
                                "Internal Server Error", NoUser, NoToken,
                                "IntegrityError")
            /\ UNCHANGED <<users, nextId>>
       ELSE /\ nextId <= MaxUsers
            /\ users' = users \cup {NewUser(nextId, req.username, req.email,
                                             req.password, req.role)}
            /\ nextId' = nextId + 1
            /\ last' = WithUsers(Response(req.op, req.username, "", NoToken,
                                          200, "", nextId, NoToken, ""),
                                 {NewUser(nextId, req.username, req.email,
                                          req.password, req.role)})
    /\ inflight' = [inflight EXCEPT ![w] = NoRequest]
    /\ LeaveOthers

(* create_user from models.User(...) on: the constructor call reads        *)
(* user.license_number, which schemas.UserCreate does not have, and the    *)
(* AttributeError ends the request before db.add.                          *)
CreateUserBuild(w) ==
    LET req == inflight[w] IN
    /\ req.pc = "checked"
    /\ req.op = "create_user"
    /\ last' = Response(req.op, req.username, "", NoToken, 500,
                        "Internal Server Error", NoUser, NoToken,
                        "AttributeError")
    /\ inflight' = [inflight EXCEPT ![w] = NoRequest]
    /\ UNCHANGED <<users, nextId>>
    /\ LeaveOthers

----------------------------------------------------------------------------
(* authenticate_user and POST /auth/token *)

authenticate_user(user, password) ==
    IF user = NoRow \/ ~verify_password(password, user.hashed_password)
    THEN NoRow
    ELSE user

Grant(tok, uid) == [tok |-> tok, uid |-> uid, iat |-> now]

(* The tokens an identity already holds when it is issued another one. *)
Earlier(g) == {h \in issued : h.uid = g.uid /\ h # g}

CanIssue(g) == g \in issued \/ Cardinality(issued) < MaxTokens

login_response_sub_as_typed(ident, password, user) ==
    IF user = NoRow
    THEN Response("login", ident, password, NoToken, 401,
                  "Incorrect username or password", NoUser, NoToken, "")
    ELSE IF ~user.is_active
    THEN Response("login", ident, password, NoToken, 401,
                  "User account is disabled", user.id, NoToken, "")
    ELSE Response("login", ident, password, NoToken, 200, "bearer", user.id,
                  create_access_token(ident, now,
                                      ACCESS_TOKEN_EXPIRE_MINUTES), "")

(* login_for_access_token after authenticate_user: the two 401s, or the    *)
(* token for data={"sub": user.username}; detail carries the token_type of *)
(* a 200.                                                                  *)
login_response(ident, password, user) ==
    IF user = NoRow
    THEN Response("login", ident, password, NoToken, 401,
                  "Incorrect username or password", NoUser, NoToken, "")
    ELSE IF ~user.is_active
    THEN Response("login", ident, password, NoToken, 401,
                  "User account is disabled", user.id, NoToken, "")
    ELSE Response("login", ident, password, NoToken, 200, "bearer", user.id,
                  create_access_token(user.username, now,
                                      ACCESS_TOKEN_EXPIRE_MINUTES), "")

LoginForAccessToken(ident, password) ==
    \E row \in First(ByUsernameOrEmail(ident)) :
        LET user == authenticate_user(row, password)
            r == login_response(ident, password, user)
        IN  /\ last' = r
            /\ IF r.status = 200
               THEN /\ CanIssue(Grant(r.out, r.uid))
                    /\ issued' = issued \cup {Grant(r.out, r.uid)}
                    /\ outlived' = outlived \cup Earlier(Grant(r.out, r.uid))
               ELSE UNCHANGED <<issued, outlived>>
            /\ UNCHANGED <<users, nextId, now, expiredSeen, lastResolved>>
            /\ UNCHANGED <<resourceVars, inflight, sessions, pwChanged>>

----------------------------------------------------------------------------------------------------------------------------------------------
(* get_current_user, GET /auth/me and POST /auth/refresh-token *)

CredentialsException(why) ==
    [status |-> 401, detail |-> "Could not validate credentials",
     uid |-> NoUser, why |-> why]

(* The rows the reload by the token's subject may produce. *)
SubjectRows(token) ==
    LET d == jwt_decode(token, SECRET_KEY, now) IN
    IF d.ok /\ d.sub # NoSub THEN First(ByUsernameOrEmail(d.sub)) ELSE {NoRow}

get_current_user_no_none_check(token, user, commitOk) ==
    LET d == jwt_decode(token, SECRET_KEY, now) IN
    IF ~d.ok THEN CredentialsException(d.err)
    ELSE IF d.sub = NoSub THEN CredentialsException("NoSubject")
    ELSE IF user = NoRow \/ ~commitOk
    THEN [status |-> 500, detail |-> "Internal Server Error",
          uid |-> NoUser, why |-> "CommitFailed"]
    ELSE [status |-> 200, detail |-> "", uid |-> user.id, why |-> ""]

(* user: the row first() produced; commitOk: whether db.commit() went      *)
(* through.  An exception of commit() leaves the handler as a 500.         *)
get_current_user(token, user, commitOk) ==
    LET d == jwt_decode(token, SECRET_KEY, now) IN
    IF ~d.ok THEN CredentialsException(d.err)
    ELSE IF d.sub = NoSub THEN CredentialsException("NoSubject")
    ELSE IF user = NoRow THEN CredentialsException("IdentityGone")
    ELSE IF ~commitOk
    THEN [status |-> 500, detail |-> "Internal Server Error",
          uid |-> NoUser, why |-> "CommitFailed"]
    ELSE [status |-> 200, detail |-> "", uid |-> user.id, why |-> ""]

touch_last_login_skipped(user, nowTick) == user

(* user.last_login = datetime.utcnow(); the UPDATE that db.commit()        *)
(* flushes also stamps updated_at, whose column has onupdate=func.now().   *)
touch_last_login(user, nowTick) ==
    [user EXCEPT !.last_login = nowTick, !.updated_at = nowTick]

Resolved_verifying(token, user, r) ==
    /\ users' = IF r.status = 200
                THEN (users \ {user}) \cup
                        {[touch_last_login(user, now) EXCEPT !.is_verified = TRUE]}
                ELSE users
    /\ lastResolved' = IF r.status = 200
                       THEN [lastResolved EXCEPT ![user.id] = now]
                       ELSE lastResolved
    /\ expiredSeen' = IF r.why = "Expired"
                      THEN expiredSeen \cup {token}
                      ELSE expiredSeen

(* The effect of the dependency on the store and on the history. *)
Resolved(token, user, r) ==
    /\ users' = IF r.status = 200
                THEN (users \ {user}) \cup {touch_last_login(user, now)}
                ELSE users
    /\ lastResolved' = IF r.status = 200
                       THEN [lastResolved EXCEPT ![user.id] = now]
                       ELSE lastResolved
    /\ expiredSeen' = IF r.why = "Expired"
                      THEN expiredSeen \cup {token}
                      ELSE expiredSeen

GetMe(token, commitOk) ==
    \E user \in SubjectRows(token) :
        LET r == get_current_user(token, user, commitOk) IN
        /\ Resolved(token, user, r)
        /\ last' = WithUsers(Response("me", "", "", token, r.status, r.detail,
                                      r.uid, NoToken, r.why),
                             IF r.status = 200
                             THEN {touch_last_login(user, now)}
                             ELSE {})
        /\ UNCHANGED <<nextId, now, issued>>
        /\ UNCHANGED <<resourceVars, inflight, sessions, pwChanged, outlived>>

RefreshAccessToken(token, commitOk) ==
    \E user \in SubjectRows(token) :
        LET r == get_current_user(token, user, commitOk)
            out == create_access_token(user.username, now,
                                       ACCESS_TOKEN_EXPIRE_MINUTES)
        IN
        /\ Resolved(token, user, r)
        /\ IF r.status = 200
           THEN /\ CanIssue(Grant(out, user.id))
                /\ issued' = issued \cup {Grant(out, user.id)}
                /\ outlived' = outlived \cup Earlier(Grant(out, user.id))
                /\ last' = Response("refresh", "", "", token, 200, "bearer",
                                    user.id, out, "")
           ELSE /\ UNCHANGED <<issued, outlived>>
                /\ last' = Response("refresh", "", "", token, r.status,
                                    r.detail, r.uid, NoToken, r.why)
        /\ UNCHANGED <<nextId, now>>
        /\ UNCHANGED <<resourceVars, inflight, sessions, pwChanged>>

(* POST /auth/change-password.  current_user is the row get_current_user   *)
(* resolved, with its last_login already written; commitOk: whether the    *)
(* handler's own db.commit() went through.                                 *)
change_password_unverified(current_user, current_password, new_password, commitOk) ==
    [status |-> 200, detail |-> "Password updated successfully",
     row |-> [current_user EXCEPT
                !.hashed_password = get_password_hash(new_password)]]

change_password(current_user, current_password, new_password, commitOk) ==
    IF ~verify_password(current_password, current_user.hashed_password)
    THEN [status |-> 400, detail |-> "Incorrect current password",
          row |-> current_user]
    ELSE IF ~commitOk
    THEN [status |-> 500, detail |-> "Internal Server Error",
          row |-> current_user]
    ELSE [status |-> 200, detail |-> "Password updated successfully",
          row |-> [current_user EXCEPT
                     !.hashed_password = get_password_hash(new_password),
                     !.updated_at = now]]

ChangeReply(token, current_password, new_password, caller, status, detail, why) ==
    [Response("change_password", "", current_password, token, status, detail,
              IF status = 200 THEN caller ELSE NoUser, NoToken, why)
        EXCEPT !.arg = [caller |-> caller, allowed |-> {}, target |-> 0,
                        new |-> new_password]]

ChangePassword(token, current_password, new_password, resolveOk, commitOk) ==
    \E user \in SubjectRows(token) :
        LET r == get_current_user(token, user, resolveOk)
            c == change_password(touch_last_login(user, now), current_password,
                                 new_password, commitOk)
        IN
        IF r.status # 200
        THEN /\ Resolved(token, user, r)
             /\ last' = ChangeReply(token, current_password, new_password,
                                    NoUser, r.status, r.detail, r.why)
             /\ UNCHANGED <<nextId, now, issued, pwChanged, outlived>>
             /\ UNCHANGED <<resourceVars, inflight, sessions>>
        ELSE /\ users' = (users \ {user}) \cup {c.row}
             /\ lastResolved' = [lastResolved EXCEPT ![user.id] = now]
             /\ last' = ChangeReply(token, current_password, new_password,
                                    user.id, c.status, c.detail, "")
             /\ pwChanged' =
                    IF c.status = 200
                    THEN [pwChanged EXCEPT ![user.id] =
                            [changed |-> TRUE, old |-> current_password,
                             new |-> new_password]]
                    ELSE pwChanged
             /\ outlived' =
                    IF c.status = 200
                    THEN outlived \cup {g \in issued : g.uid = user.id}
                    ELSE outlived
             /\ UNCHANGED <<nextId, now, issued, expiredSeen>>
             /\ UNCHANGED <<resourceVars, inflight, sessions>>

(* POST /auth/forgot-password.  user: the row first() produced, or none. *)
forgot_password_revealing(user) ==
    IF user = NoRow
    THEN [status |-> 404, detail |-> "User not found"]
    ELSE [status |-> 200,
          detail |-> "If this email is registered, you will receive a password reset link."]

forgot_password(user) ==
    IF user = NoRow
    THEN [status |-> 200,
          detail |-> "If this email is registered, you will receive a password reset link."]
    ELSE [status |-> 200,
          detail |-> "If this email is registered, you will receive a password reset link."]

ForgotPassword(email) ==
    \E user \in First({u \in users : u.email = email}) :
        LET r == forgot_password(user) IN
        /\ last' = Response("forgot_password", email, "", NoToken, r.status,
                            r.detail, NoUser, NoToken, "")
        /\ UNCHANGED <<users, nextId, now, issued, expiredSeen, lastResolved>>
        /\ UNCHANGED <<resourceVars, inflight, sessions, pwChanged, outlived>>

(* A call of create_access_token(data, expires_delta) on its own;          *)
(* expires_minutes = 0 stands for a call without expires_delta.            *)
CreateAccessToken(sub, expires_minutes) ==
    /\ last' = [Response("create_access_token", sub, "", NoToken, 200, "",
                         NoUser,
                         create_access_token(sub, now, expires_minutes), "")
                    EXCEPT !.arg.target = expires_minutes]
    /\ UNCHANGED <<users, nextId, now, issued, expiredSeen, lastResolved>>
    /\ UNCHANGED <<resourceVars, inflight, sessions, pwChanged, outlived>>

(* What a client can present as a bearer token: a token it was issued, a   *)
(* copy of one with the signature segment altered, re-signed with another  *)
(* secret or with the expiry in the payload pushed out, a string that is   *)
(* no JWT, and a token create_access_token makes from data without "sub".  *)
FlipSignature(t) == [t EXCEPT !.mac.flipped = TRUE]
ResignWith(t, key) == jwt_encode(t.sub, t.exp, key)
ExtendExpiry(t) == [t EXCEPT !.exp = t.exp + 3600]

Presentable ==
    LET mine == {g.tok : g \in issued} IN
    mine \cup {FlipSignature(t) : t \in mine}
         \cup {ResignWith(t, OTHER_KEY) : t \in mine}
         \cup {ExtendExpiry(t) : t \in mine}
         \cup {Garbage, create_access_token(NoSub, now, ACCESS_TOKEN_EXPIRE_MINUTES)}

----------------------------------------------------------------------------
(* Authorization guards: get_current_active_user, require_roles,           *)
(* get_admin_user, get_agent_user.  current_user is the row the            *)
(* dependency get_current_user resolved.                                   *)

Allow(current_user) == [status |-> 200, detail |-> "", uid |-> current_user.id]

Deny(status, detail) == [status |-> status, detail |-> detail, uid |-> NoUser]

get_current_active_user_unchecked(current_user) == Allow(current_user)

get_current_active_user(current_user) ==
    IF ~current_user.is_active
    THEN Deny(400, "Inactive user")
    ELSE Allow(current_user)

require_roles_any(allowed_roles, current_user) ==
    get_current_active_user(current_user)

require_roles(allowed_roles, current_user) ==
    LET active == get_current_active_user(current_user) IN
    IF active.status # 200 THEN active
    ELSE IF current_user.role \notin allowed_roles
    THEN Deny(403, "Insufficient permissions")
    ELSE Allow(current_user)

get_admin_user(current_user) ==
    LET active == get_current_active_user(current_user) IN
    IF active.status # 200 THEN active
    ELSE IF current_user.role # "admin"
    THEN Deny(403, "Admin access required")
    ELSE Allow(current_user)

get_agent_user(current_user) ==
    LET active == get_current_active_user(current_user) IN
    IF active.status # 200 THEN active
    ELSE IF current_user.role \notin {"agent", "admin"}
    THEN Deny(403, "Agent or admin access required")
    ELSE Allow(current_user)

(* The response of a request made as current_user, about target. *)
Reply(op, current_user, target, status, detail) ==
    [Response(op, "", "", NoToken, status, detail,
              IF status = 200 THEN current_user.id ELSE NoUser, NoToken, "")
        EXCEPT !.arg = [caller |-> current_user.id, allowed |-> {},
                        target |-> target, new |-> ""]]

GuardReply(op, current_user, allowed_roles, d) ==
    [Reply(op, current_user, 0, d.status, d.detail)
        EXCEPT !.arg.allowed = allowed_roles]

EvaluateGuard_touching(op, allowed_roles, current_user) ==
    /\ last' = GuardReply(op, current_user, allowed_roles,
                          get_current_active_user(current_user))
    /\ users' = (users \ {current_user})
                    \cup {[current_user EXCEPT !.last_login = now]}
    /\ UNCHANGED <<nextId, now, issued, expiredSeen, lastResolved>>
    /\ UNCHANGED <<resourceVars, inflight, sessions, pwChanged, outlived>>

(* One evaluation of a guard on a resolved identity. *)
EvaluateGuard(op, allowed_roles, current_user) ==
    LET d == CASE op = "active" -> get_current_active_user(current_user)
               [] op = "roles" -> require_roles(allowed_roles, current_user)
               [] op = "admin" -> get_admin_user(current_user)
               [] op = "agent" -> get_agent_user(current_user)
    IN  /\ last' = GuardReply(op, current_user, allowed_roles, d)
        /\ UNCHANGED <<users, nextId, now, issued, expiredSeen, lastResolved>>
        /\ UNCHANGED <<resourceVars, inflight, sessions, pwChanged, outlived>>

GetCurrentActiveUser(current_user) == EvaluateGuard("active", {}, current_user)

RequireRoles(allowed_roles, current_user) ==
    EvaluateGuard("roles", allowed_roles, current_user)

GetAdminUser(current_user) == EvaluateGuard("admin", {"admin"}, current_user)

GetAgentUser(current_user) ==
    EvaluateGuard("agent", {"agent", "admin"}, current_user)

----------------------------------------------------------------------------
(* Properties, measurements, descriptions and photo uploads.  Each handler *)
(* runs as current_user, the row its dependency get_current_user resolved. *)

Titles == {"t1", "t2"}
Areas == {10, 20}
Filenames == {"photo_a.jpg"}

ById(rows, id) == {r \in rows : r.id = id}

not_authorized_owner_only(property, current_user) ==
    /\ property.owner_id # current_user.id
    /\ current_user.role # "admin"

(* owner_id != current_user.id and agent_id != current_user.id and         *)
(* role != ADMIN: the check the handlers make before they modify.          *)
not_authorized(property, current_user) ==
    /\ property.owner_id # current_user.id
    /\ property.agent_id # current_user.id
    /\ current_user.role # "admin"

(* uploads.py: not (is_owner or is_agent or is_admin) *)
upload_not_authorized(prop, current_user) ==
    LET is_owner == prop.owner_id = current_user.id
        is_agent == prop.agent_id = current_user.id
        is_admin == current_user.role = "admin"
    IN  ~(is_owner \/ is_agent \/ is_admin)

UnchangedUsers ==
    /\ UNCHANGED <<users, nextId, now, issued, expiredSeen, lastResolved>>
    /\ UNCHANGED <<inflight, sessions, pwChanged, outlived>>

CreateProperty(current_user, agent_id, title) ==
    /\ seq.properties <= MaxProperties
    /\ properties' = properties \cup
            {[id |-> seq.properties, owner_id |-> current_user.id,
              agent_id |-> agent_id, title |-> title]}
    /\ seq' = [seq EXCEPT !.properties = @ + 1]
    /\ last' = Reply("create_property", current_user, seq.properties, 200, "")
    /\ UNCHANGED <<measurements, descriptions, uploads>>
    /\ UnchangedUsers

UpdateProperty(current_user, property_id, title) ==
    /\ IF ById(properties, property_id) = {}
       THEN /\ last' = Reply("update_property", current_user, property_id,
                             404, "Property not found")
            /\ UNCHANGED properties
       ELSE \E property \in ById(properties, property_id) :
            IF not_authorized(property, current_user)
            THEN /\ last' = Reply("update_property", current_user, property_id,
                                  403, "Not authorized")
                 /\ UNCHANGED properties
            ELSE /\ properties' = (properties \ {property})
                        \cup {[property EXCEPT !.title = title]}
                 /\ last' = Reply("update_property", current_user, property_id,
                                  200, "")
    /\ UNCHANGED <<measurements, descriptions, uploads, seq>>
    /\ UnchangedUsers

CreateMeasurement(current_user, property_id, area_sqm) ==
    /\ IF ById(properties, property_id) = {}
       THEN /\ last' = Reply("create_measurement", current_user, property_id,
                             404, "Property not found")
            /\ UNCHANGED <<measurements, seq>>
       ELSE \E property \in ById(properties, property_id) :
            IF not_authorized(property, current_user)
            THEN /\ last' = Reply("create_measurement", current_user,
                                  property_id, 403, "Not authorized")
                 /\ UNCHANGED <<measurements, seq>>
            ELSE /\ seq.measurements <= MaxMeasurements
                 /\ measurements' = measurements \cup
                        {[id |-> seq.measurements, property_id |-> property_id,
                          area_sqm |-> area_sqm]}
                 /\ seq' = [seq EXCEPT !.measurements = @ + 1]
                 /\ last' = Reply("create_measurement", current_user,
                                  property_id, 200, "")
    /\ UNCHANGED <<properties, descriptions, uploads>>
    /\ UnchangedUsers

UpdateMeasurement(current_user, measurement_id, area_sqm) ==
    /\ IF ById(measurements, measurement_id) = {}
       THEN /\ last' = Reply("update_measurement", current_user, 0,
                             404, "Measurement not found")
            /\ UNCHANGED measurements
       ELSE \E measurement \in ById(measurements, measurement_id) :
            \E property \in ById(properties, measurement.property_id) :
            IF not_authorized(property, current_user)
            THEN /\ last' = Reply("update_measurement", current_user,
                                  property.id, 403, "Not authorized")
                 /\ UNCHANGED measurements
            ELSE /\ measurements' = (measurements \ {measurement})
                        \cup {[measurement EXCEPT !.area_sqm = area_sqm]}
                 /\ last' = Reply("update_measurement", current_user,
                                  property.id, 200, "")
    /\ UNCHANGED <<properties, descriptions, uploads, seq>>
    /\ UnchangedUsers

DeleteMeasurement(current_user, measurement_id) ==
    /\ IF ById(measurements, measurement_id) = {}
       THEN /\ last' = Reply("delete_measurement", current_user, 0,
                             404, "Measurement not found")
            /\ UNCHANGED measurements
       ELSE \E measurement \in ById(measurements, measurement_id) :
            \E property \in ById(properties, measurement.property_id) :
            IF not_authorized(property, current_user)
            THEN /\ last' = Reply("delete_measurement", current_user,
                                  property.id, 403, "Not authorized")
                 /\ UNCHANGED measurements
            ELSE /\ measurements' = measurements \ {measurement}
                 /\ last' = Reply("delete_measurement", current_user,
                                  property.id, 200, "")
    /\ UNCHANGED <<properties, descriptions, uploads, seq>>
    /\ UnchangedUsers

NewDescription(id, property_id, current_user, is_active) ==
    [id |-> id, property_id |-> property_id, created_by_id |-> current_user.id,
     is_active |-> is_active, is_approved |-> FALSE, approved_by_id |-> NoUser,
     view_count |-> 0, title_suggestion |-> ""]

(* query(PropertyDescription).filter(...).update({"is_active": False}) *)
Deactivate(rows) == {[d EXCEPT !.is_active = FALSE] : d \in rows}

CreatePropertyDescription(current_user, property_id) ==
    /\ IF ById(properties, property_id) = {}
       THEN /\ last' = Reply("create_description", current_user, property_id,
                             404, "Property not found")
            /\ UNCHANGED <<descriptions, seq>>
       ELSE \E property \in ById(properties, property_id) :
            IF not_authorized(property, current_user)
            THEN /\ last' = Reply("create_description", current_user,
                                  property_id, 403, "Not authorized")
                 /\ UNCHANGED <<descriptions, seq>>
            ELSE /\ seq.descriptions <= MaxDescriptions
                 /\ descriptions' = descriptions \cup
                        {NewDescription(seq.descriptions, property_id,
                                        current_user, FALSE)}
                 /\ seq' = [seq EXCEPT !.descriptions = @ + 1]
                 /\ last' = Reply("create_description", current_user,
                                  property_id, 200, "")
    /\ UNCHANGED <<properties, measurements, uploads>>
    /\ UnchangedUsers

GenerateDescription(current_user, property_id) ==
    /\ IF ById(properties, property_id) = {}
       THEN /\ last' = Reply("generate_description", current_user, property_id,
                             404, "Property not found")
            /\ UNCHANGED <<descriptions, seq>>
       ELSE \E property \in ById(properties, property_id) :
            IF not_authorized(property, current_user)
            THEN /\ last' = Reply("generate_description", current_user,
                                  property_id, 403, "Not authorized")
                 /\ UNCHANGED <<descriptions, seq>>
            ELSE LET mine == {d \in descriptions : d.property_id = property_id}
                 IN  /\ seq.descriptions <= MaxDescriptions
                     /\ descriptions' = (descriptions \ mine)
                            \cup Deactivate(mine)
                            \cup {NewDescription(seq.descriptions, property_id,
                                                 current_user, TRUE)}
                     /\ seq' = [seq EXCEPT !.descriptions = @ + 1]
                     /\ last' = Reply("generate_description", current_user,
                                      property_id, 200, "")
    /\ UNCHANGED <<properties, measurements, uploads>>
    /\ UnchangedUsers

ApprovePropertyDescription(current_user, description_id) ==
    /\ IF ById(descriptions, description_id) = {}
       THEN /\ last' = Reply("approve_description", current_user, 0,
                             404, "Property description not found")
            /\ UNCHANGED descriptions
       ELSE \E description \in ById(descriptions, description_id) :
            \E property \in ById(properties, description.property_id) :
            IF not_authorized(property, current_user)
            THEN /\ last' = Reply("approve_description", current_user,
                                  property.id, 403, "Not authorized")
                 /\ UNCHANGED descriptions
            ELSE LET others == {d \in descriptions :
                                    /\ d.property_id = description.property_id
                                    /\ d.id # description_id}
                 IN  /\ descriptions' =
                            (descriptions \ (others \cup {description}))
                            \cup Deactivate(others)
                            \cup {[description EXCEPT
                                      !.is_approved = TRUE,
                                      !.is_active = TRUE,
                                      !.approved_by_id = current_user.id]}
                     /\ last' = Reply("approve_description", current_user,
                                      property.id, 200, "")
    /\ UNCHANGED <<properties, measurements, uploads, seq>>
    /\ UnchangedUsers

(* saveOk: whether the file could be written under uploads/<property_id>/; *)
(* a failed write may leave the file it had opened behind.                 *)
UploadPropertyPhoto(current_user, property_id, filename, saveOk) ==
    /\ IF ById(properties, property_id) = {}
       THEN /\ last' = Reply("upload_photo", current_user, property_id,
                             404, "Property not found")
            /\ UNCHANGED uploads
       ELSE \E prop \in ById(properties, property_id) :
            IF upload_not_authorized(prop, current_user)
            THEN /\ last' = Reply("upload_photo", current_user, property_id,
                                  403, "Not authorized to upload for this property")
                 /\ UNCHANGED uploads
            ELSE IF ~saveOk
            THEN /\ last' = Reply("upload_photo", current_user, property_id,
                                  500, "Failed to save image")
                 /\ \E left \in {{}, {[property_id |-> property_id,
                                        filename |-> filename]}} :
                        uploads' = uploads \cup left
            ELSE /\ uploads' = uploads \cup
                        {[property_id |-> property_id, filename |-> filename]}
                 /\ last' = Reply("upload_photo", current_user, property_id,
                                  200, "")
    /\ UNCHANGED <<properties, measurements, descriptions, seq>>
    /\ UnchangedUsers

----------------------------------------------------------------------------
(* The environment: the clock, and the store's owner acting on the table *)

(* The clock is observed at the instants of Instants: around the moment of *)
(* an issuance and around the end of a token's lifetime.                   *)
Instants ==
    {k * TtlTicks + e : k \in 0..MaxLifetimes, e \in 0..SecondsToTicks(MaxExtraSeconds)}

Tick(t) ==
    /\ t > now
    /\ now' = t
    /\ last' = Idle
    /\ UNCHANGED <<users, nextId, issued, expiredSeen, lastResolved>>
    /\ UNCHANGED <<resourceVars, inflight, sessions, pwChanged, outlived>>

AdminSetActive(id, flag) ==
    \E u \in users :
        /\ u.id = id
        /\ u.is_active # flag
        /\ users' = (users \ {u}) \cup {[u EXCEPT !.is_active = flag]}
        /\ last' = Idle
        /\ UNCHANGED <<nextId, now, issued, expiredSeen, lastResolved>>
        /\ UNCHANGED <<resourceVars, inflight, sessions, pwChanged, outlived>>

(* The rows that reference a user through a foreign key; the database     *)
(* refuses to delete a user while there are any.                           *)
References(id) ==
    {p \in properties : p.owner_id = id \/ p.agent_id = id}
        \cup {d \in descriptions : d.created_by_id = id \/ d.approved_by_id = id}

AdminDeleteIdentity(id) ==
    \E u \in users :
        /\ u.id = id
        /\ References(id) = {}
        /\ users' = users \ {u}
        /\ last' = Idle
        /\ UNCHANGED <<nextId, now, issued, expiredSeen, lastResolved>>
        /\ UNCHANGED <<resourceVars, inflight, sessions, pwChanged, outlived>>

----------------------------------------------------------------------------
(* Requests of concurrent server processes on one identity.  Each request  *)
(* has its own Session (get_db); its statements reach the database one by  *)
(* one, and statements of other requests run between them.                 *)

(* The UPDATE that the commit of get_current_user flushes: the unit of     *)
(* work sets the columns that are dirty, last_login, and the onupdate      *)
(* column, on the stored row with the primary key of the loaded one.       *)
update_last_login_whole_row(stored, loaded, nowTick) ==
    touch_last_login(loaded, nowTick)

update_last_login(stored, loaded, nowTick) ==
    [stored EXCEPT !.last_login = nowTick, !.updated_at = nowTick]

(* The UPDATE that the commit of change_password flushes. *)
update_hashed_password(stored, loaded, new_password, nowTick) ==
    [stored EXCEPT !.hashed_password = get_password_hash(new_password),
                   !.updated_at = nowTick]

(* get_current_user up to "if user is None": decode and query.first() *)
BeginRequest(w, op, token, current_password, new_password) ==
    /\ sessions[w].pc = "idle"
    /\ \E user \in SubjectRows(token) :
        LET r == get_current_user(token, user, TRUE) IN
        /\ IF r.status # 200
           THEN /\ last' = [Response(op, "", current_password, token, r.status,
                                     r.detail, NoUser, NoToken, r.why)
                                EXCEPT !.arg.new = new_password]
                /\ UNCHANGED sessions
           ELSE /\ last' = Idle
                /\ sessions' = [sessions EXCEPT ![w] =
                        [NoSession EXCEPT !.pc = "loaded", !.op = op,
                            !.token = token,
                            !.current_password = current_password,
                            !.new_password = new_password, !.user = user]]
        /\ expiredSeen' = IF r.why = "Expired"
                          THEN expiredSeen \cup {token}
                          ELSE expiredSeen
    /\ UNCHANGED <<users, nextId, now, issued, lastResolved>>
    /\ UNCHANGED <<resourceVars, inflight, pwChanged, outlived>>

(* What a request answers when a statement of its transaction fails. *)
ServerError(s, why) ==
    [Response(s.op, "", s.current_password, s.token, 500,
              "Internal Server Error", NoUser, NoToken, why)
        EXCEPT !.arg.caller = s.user.id, !.arg.new = s.new_password]

(* get_current_user from "user.last_login =" to its return, and for       *)
(* GET /auth/me the handler, which returns current_user. An UPDATE that    *)
(* matches no row, because the row was deleted, raises StaleDataError.     *)
CommitLastLogin(w, commitOk) ==
    LET s == sessions[w] IN
    /\ s.pc = "loaded"
    /\ IF ById(users, s.user.id) = {} \/ ~commitOk
       THEN /\ last' = ServerError(s, "CommitFailed")
            /\ sessions' = [sessions EXCEPT ![w] = NoSession]
            /\ UNCHANGED <<users, lastResolved>>
       ELSE \E stored \in ById(users, s.user.id) :
            LET row == update_last_login(stored, s.user, now) IN
            /\ users' = (users \ {stored}) \cup {row}
            /\ lastResolved' = [lastResolved EXCEPT ![stored.id] = now]
            /\ IF s.op = "me"
               THEN /\ last' = WithUsers(Response("me", "", "", s.token, 200,
                                                   "", stored.id, NoToken, ""),
                                          {row})
                    /\ sessions' = [sessions EXCEPT ![w] = NoSession]
               ELSE /\ last' = Idle
                    /\ sessions' = [sessions EXCEPT ![w].pc = "resolved"]
    /\ UNCHANGED <<nextId, now, issued, expiredSeen>>
    /\ UNCHANGED <<resourceVars, inflight, pwChanged, outlived>>

(* change_password up to the 400: the commit of get_current_user expired   *)
(* current_user, so reading current_user.hashed_password loads the row     *)
(* again; a row deleted meanwhile raises ObjectDeletedError.               *)
VerifyCurrentPassword(w) ==
    LET s == sessions[w] IN
    /\ s.pc = "resolved"
    /\ IF ById(users, s.user.id) = {}
       THEN /\ last' = ServerError(s, "ObjectDeleted")
            /\ sessions' = [sessions EXCEPT ![w] = NoSession]
       ELSE \E stored \in ById(users, s.user.id) :
            LET c == change_password(stored, s.current_password,
                                     s.new_password, TRUE)
            IN  IF c.status = 400
                THEN /\ last' = ChangeReply(s.token, s.current_password,
                                            s.new_password, stored.id,
                                            c.status, c.detail, "")
                     /\ sessions' = [sessions EXCEPT ![w] = NoSession]
                ELSE /\ last' = Idle
                     /\ sessions' = [sessions EXCEPT ![w].pc = "verified",
                                                     ![w].user = stored]
    /\ UNCHANGED <<users, nextId, now, issued, expiredSeen, lastResolved>>
    /\ UNCHANGED <<resourceVars, inflight, pwChanged, outlived>>

(* change_password from "current_user.hashed_password =" to its return *)
CommitPassword(w, commitOk) ==
    LET s == sessions[w] IN
    /\ s.pc = "verified"
    /\ IF ById(users, s.user.id) = {} \/ ~commitOk
       THEN /\ last' = ServerError(s, "CommitFailed")
            /\ UNCHANGED <<users, pwChanged, outlived>>
       ELSE \E stored \in ById(users, s.user.id) :
            /\ users' = (users \ {stored}) \cup
                    {update_hashed_password(stored, s.user, s.new_password,
                                            now)}
            /\ last' = ChangeReply(s.token, s.current_password,
                                   s.new_password, stored.id, 200,
                                   "Password updated successfully", "")
            /\ pwChanged' = [pwChanged EXCEPT ![stored.id] =
                                [changed |-> TRUE, old |-> s.current_password,
                                 new |-> s.new_password]]
            /\ outlived' = outlived \cup {g \in issued : g.uid = stored.id}
    /\ sessions' = [sessions EXCEPT ![w] = NoSession]
    /\ UNCHANGED <<nextId, now, issued, expiredSeen, lastResolved>>
    /\ UNCHANGED <<resourceVars, inflight>>

----------------------------------------------------------------------------
(* api/users.py: the profile of the caller and the listings of users.  A   *)
(* handler that depends on get_current_user runs after the resolution of   *)
(* its token, whose last_login is committed whatever the handler does.     *)

ProfileColumns == {"first_name", "last_name", "phone_number", "profile_image_url"}
ProfileValues == {"Al"}

(* user_update.dict(exclude_unset=True): the columns the request sets. *)
UserUpdates ==
    UNION {[cols -> ProfileValues] : cols \in SUBSET ProfileColumns}

Updated(user_update, column, old) ==
    IF column \in DOMAIN user_update THEN user_update[column] ELSE old

update_current_user_promoting(current_user, user_update) ==
    [current_user EXCEPT !.role = "admin"]

(* for field, value in update_data.items(): setattr(current_user, field,   *)
(* value): schemas.UserUpdate has the four profile columns and no other.   *)
update_current_user(current_user, user_update) ==
    [current_user EXCEPT
        !.first_name = Updated(user_update, "first_name", @),
        !.last_name = Updated(user_update, "last_name", @),
        !.phone_number = Updated(user_update, "phone_number", @),
        !.profile_image_url = Updated(user_update, "profile_image_url", @)]

(* POST /users/ served alone: the 400 of a name that is taken, or the      *)
(* AttributeError of models.User(license_number=user.license_number, ...). *)
CreateUser(username, email, password, role) ==
    /\ last' = IF \E u \in users : u.email = email \/ u.username = username
               THEN Response("create_user", username, "", NoToken, 400,
                             "Email or username already registered",
                             NoUser, NoToken, "")
               ELSE Response("create_user", username, "", NoToken, 500,
                             "Internal Server Error", NoUser, NoToken,
                             "AttributeError")
    /\ UNCHANGED <<users, nextId, now, issued, expiredSeen, lastResolved>>
    /\ UNCHANGED <<resourceVars, inflight, sessions, pwChanged, outlived>>

(* What a handler answers when the resolution of its token fails. *)
Unresolved(op, token, r) ==
    Response(op, "", "", token, r.status, r.detail, r.uid, NoToken, r.why)

(* GET /users/me *)
GetCurrentUserProfile(token, commitOk) ==
    \E user \in SubjectRows(token) :
        LET r == get_current_user(token, user, commitOk) IN
        /\ Resolved(token, user, r)
        /\ last' = WithUsers(Unresolved("profile", token, r),
                             IF r.status = 200
                             THEN {touch_last_login(user, now)}
                             ELSE {})
        /\ UNCHANGED <<nextId, now, issued>>
        /\ UNCHANGED <<resourceVars, inflight, sessions, pwChanged, outlived>>

(* PUT /users/me.  commitOk: whether the handler's own db.commit() went    *)
(* through; the UPDATE it flushes, if a column changed, stamps updated_at. *)
UpdateCurrentUser(token, user_update, resolveOk, commitOk) ==
    \E user \in SubjectRows(token) :
        LET r == get_current_user(token, user, resolveOk)
            current_user == touch_last_login(user, now)
            row == update_current_user(current_user, user_update)
        IN
        /\ IF r.status # 200
           THEN /\ Resolved(token, user, r)
                /\ last' = Unresolved("update_current_user", token, r)
           ELSE /\ users' = (users \ {user}) \cup
                        {IF commitOk THEN row ELSE current_user}
                /\ lastResolved' = [lastResolved EXCEPT ![user.id] = now]
                /\ UNCHANGED expiredSeen
                /\ last' =
                    IF commitOk
                    THEN WithUsers(Response("update_current_user", "", "",
                                            token, 200, "", user.id, NoToken,
                                            ""), {row})
                    ELSE Response("update_current_user", "", "", token, 500,
                                  "Internal Server Error", NoUser, NoToken,
                                  "CommitFailed")
        /\ UNCHANGED <<nextId, now, issued>>
        /\ UNCHANGED <<resourceVars, inflight, sessions, pwChanged, outlived>>

(* GET /users/{user_id}: no dependency on get_current_user. *)
GetUser(user_id) ==
    /\ last' = IF ById(users, user_id) = {}
               THEN Response("get_user", "", "", NoToken, 404,
                             "User not found", NoUser, NoToken, "")
               ELSE WithUsers(Response("get_user", "", "", NoToken, 200, "",
                                       user_id, NoToken, ""),
                              ById(users, user_id))
    /\ UNCHANGED <<users, nextId, now, issued, expiredSeen, lastResolved>>
    /\ UNCHANGED <<resourceVars, inflight, sessions, pwChanged, outlived>>

(* The role filter of list_users; no role stands for role=None. *)
RoleFilters == Roles \cup {"<any>"}

(* GET /users/: admin only; skip and limit keep their defaults, which     *)
(* page nothing away from a table of MaxUsers rows.                        *)
ListUsers(token, role, commitOk) ==
    \E user \in SubjectRows(token) :
        LET r == get_current_user(token, user, commitOk)
            current_user == touch_last_login(user, now)
            listed == {u \in (users \ {user}) \cup {current_user} :
                            role = "<any>" \/ u.role = role}
        IN
        /\ Resolved(token, user, r)
        /\ last' =
            IF r.status # 200
            THEN Unresolved("list_users", token, r)
            ELSE IF current_user.role # "admin"
            THEN Response("list_users", "", "", token, 403, "Not authorized",
                          user.id, NoToken, "")
            ELSE WithUsers(Response("list_users", "", "", token, 200, "",
                                    user.id, NoToken, ""), listed)
        /\ UNCHANGED <<nextId, now, issued>>
        /\ UNCHANGED <<resourceVars, inflight, sessions, pwChanged, outlived>>

(* GET /users/agents/: the active agents; no dependency on                 *)
(* get_current_user.                                                       *)
ListAgents ==
    /\ last' = WithUsers(Response("list_agents", "", "", NoToken, 200, "",
                                  NoUser, NoToken, ""),
                         {u \in users : u.role = "agent" /\ u.is_active})
    /\ UNCHANGED <<users, nextId, now, issued, expiredSeen, lastResolved>>
    /\ UNCHANGED <<resourceVars, inflight, sessions, pwChanged, outlived>>

----------------------------------------------------------------------------
(* api/property_descriptions.py served by concurrent workers.  A handler   *)
(* runs as current_user in a transaction of its own Session: READ          *)
(* COMMITTED, so it sees what others have committed, its writes show at    *)
(* its commit, and a row it has updated is locked until then.              *)

MaxDrafts == 2
MaxViews == 2

(* The ids of the descriptions that transactions of workers other than w   *)
(* have updated and not committed; an UPDATE or DELETE of one waits.       *)
LockedByOthers(w) == UNION {sessions[o].locked : o \in Workers \ {w}}

WithIds(rows, ids) == {r \in rows : r.id \in ids}

(* A transaction that only reads and writes the resource tables. *)
UnchangedIdentities ==
    /\ UNCHANGED <<users, nextId, now, issued, expiredSeen, lastResolved>>
    /\ UNCHANGED <<inflight, pwChanged, outlived>>

(* What the worker answers when flush or commit raises: a 500, and the     *)
(* transaction is rolled back.                                             *)
RolledBack(w) ==
    /\ last' = Reply(sessions[w].op, sessions[w].user, sessions[w].target,
                     500, "Internal Server Error")
    /\ sessions' = [sessions EXCEPT ![w] = NoSession]

(* generate_description up to db.add: the property, the permission check,  *)
(* the call of the LLM service, and the UPDATE that sets is_active false   *)
(* on the descriptions of the property that the statement sees.            *)
BeginGenerate(w, current_user, property_id) ==
    /\ sessions[w].pc = "idle"
    /\ IF ById(properties, property_id) = {}
       THEN /\ last' = Reply("generate_description", current_user, property_id,
                             404, "Property not found")
            /\ UNCHANGED sessions
       ELSE \E property \in ById(properties, property_id) :
            IF not_authorized(property, current_user)
            THEN /\ last' = Reply("generate_description", current_user,
                                  property_id, 403, "Not authorized")
                 /\ UNCHANGED sessions
            ELSE LET mine == {d.id : d \in {x \in descriptions :
                                                x.property_id = property_id}}
                 IN  /\ seq.descriptions <= MaxDrafts
                     /\ mine \cap LockedByOthers(w) = {}
                     /\ last' = Idle
                     /\ sessions' = [sessions EXCEPT ![w] =
                            [NoSession EXCEPT !.pc = "writing",
                                !.op = "generate_description",
                                !.user = current_user, !.target = property_id,
                                !.locked = mine]]
    /\ UNCHANGED resourceVars
    /\ UnchangedIdentities

(* generate_description from db.add to its return.  The INSERT of a        *)
(* description of a property that was deleted violates the foreign key.    *)
CommitGenerate(w, commitOk) ==
    LET s == sessions[w] IN
    /\ s.pc = "writing"
    /\ s.op = "generate_description"
    /\ IF ~commitOk \/ ById(properties, s.target) = {}
       THEN /\ RolledBack(w)
            /\ UNCHANGED <<descriptions, seq>>
       ELSE /\ seq.descriptions <= MaxDrafts
            /\ descriptions' =
                    (descriptions \ WithIds(descriptions, s.locked))
                    \cup Deactivate(WithIds(descriptions, s.locked))
                    \cup {NewDescription(seq.descriptions, s.target, s.user,
                                         TRUE)}
            /\ seq' = [seq EXCEPT !.descriptions = @ + 1]
            /\ last' = Reply("generate_description", s.user, s.target, 200, "")
            /\ sessions' = [sessions EXCEPT ![w] = NoSession]
    /\ UNCHANGED <<properties, measurements, uploads>>
    /\ UnchangedIdentities

(* approve_property_description up to "description.is_approved = True":    *)
(* the description, its property, the permission check, and the UPDATE     *)
(* that sets is_active false on the other descriptions of the property.    *)
BeginApprove(w, current_user, description_id) ==
    /\ sessions[w].pc = "idle"
    /\ IF ById(descriptions, description_id) = {}
       THEN /\ last' = Reply("approve_description", current_user, 0,
                             404, "Property description not found")
            /\ UNCHANGED sessions
       ELSE \E description \in ById(descriptions, description_id) :
            \E property \in ById(properties, description.property_id) :
            IF not_authorized(property, current_user)
            THEN /\ last' = Reply("approve_description", current_user,
                                  property.id, 403, "Not authorized")
                 /\ UNCHANGED sessions
            ELSE LET others == {d.id : d \in {x \in descriptions :
                                    /\ x.property_id = description.property_id
                                    /\ x.id # description_id}}
                 IN  /\ others \cap LockedByOthers(w) = {}
                     /\ last' = Idle
                     /\ sessions' = [sessions EXCEPT ![w] =
                            [NoSession EXCEPT !.pc = "writing",
                                !.op = "approve_description",
                                !.user = current_user,
                                !.description = description,
                                !.target = property.id, !.locked = others]]
    /\ UNCHANGED resourceVars
    /\ UnchangedIdentities

(* The UPDATE that the commit of approve_property_description flushes for  *)
(* the description: it sets the attributes whose value differs from the    *)
(* one that was loaded.                                                    *)
approve_update(stored, loaded, current_user) ==
    [stored EXCEPT
        !.is_approved = IF loaded.is_approved THEN @ ELSE TRUE,
        !.is_active = IF loaded.is_active THEN @ ELSE TRUE,
        !.approved_by_id = IF loaded.approved_by_id = current_user.id
                           THEN @ ELSE current_user.id]

(* approve_property_description from db.commit() to its return.  The       *)
(* UPDATE of a description that was deleted raises StaleDataError.         *)
CommitApprove(w, commitOk) ==
    LET s == sessions[w] IN
    /\ s.pc = "writing"
    /\ s.op = "approve_description"
    /\ IF ~commitOk \/ ById(descriptions, s.description.id) = {}
       THEN /\ RolledBack(w)
            /\ UNCHANGED descriptions
       ELSE \E stored \in ById(descriptions, s.description.id) :
            /\ stored.id \notin LockedByOthers(w)
            /\ descriptions' =
                    (descriptions \
                        (WithIds(descriptions, s.locked) \cup {stored}))
                    \cup Deactivate(WithIds(descriptions, s.locked))
                    \cup {approve_update(stored, s.description, s.user)}
            /\ last' = Reply("approve_description", s.user, s.target, 200, "")
            /\ sessions' = [sessions EXCEPT ![w] = NoSession]
    /\ UNCHANGED <<properties, measurements, uploads, seq>>
    /\ UnchangedIdentities

(* update_property_description also lets the creator of the description in. *)
update_description_not_authorized(property, description, current_user) ==
    /\ property.owner_id # current_user.id
    /\ property.agent_id # current_user.id
    /\ description.created_by_id # current_user.id
    /\ current_user.role # "admin"

(* PUT /property-descriptions/{description_id}: the fields of              *)
(* schemas.PropertyDescriptionUpdate, of which the model keeps             *)
(* title_suggestion.                                                       *)
UpdatePropertyDescription(current_user, description_id, title) ==
    /\ IF ById(descriptions, description_id) = {}
       THEN /\ last' = Reply("update_description", current_user, 0,
                             404, "Property description not found")
            /\ UNCHANGED descriptions
       ELSE \E description \in ById(descriptions, description_id) :
            \E property \in ById(properties, description.property_id) :
            IF update_description_not_authorized(property, description,
                                                 current_user)
            THEN /\ last' = Reply("update_description", current_user,
                                  property.id, 403, "Not authorized")
                 /\ UNCHANGED descriptions
            ELSE /\ description_id \notin LockedByOthers(0)
                 /\ descriptions' = (descriptions \ {description}) \cup
                        {[description EXCEPT !.title_suggestion = title]}
                 /\ last' = Reply("update_description", current_user,
                                  property.id, 200, "")
    /\ UNCHANGED <<properties, measurements, uploads, seq, sessions>>
    /\ UnchangedIdentities

(* delete_property_description lets the owner, the creator and an admin    *)
(* in, and not the agent.                                                  *)
delete_description_not_authorized(property, description, current_user) ==
    /\ property.owner_id # current_user.id
    /\ description.created_by_id # current_user.id
    /\ current_user.role # "admin"

(* DELETE /property-descriptions/{description_id} *)
DeletePropertyDescription(current_user, description_id) ==
    /\ IF ById(descriptions, description_id) = {}
       THEN /\ last' = Reply("delete_description", current_user, 0,
                             404, "Property description not found")
            /\ UNCHANGED descriptions
       ELSE \E description \in ById(descriptions, description_id) :
            \E property \in ById(properties, description.property_id) :
            IF delete_description_not_authorized(property, description,
                                                 current_user)
            THEN /\ last' = Reply("delete_description", current_user,
                                  property.id, 403, "Not authorized")
                 /\ UNCHANGED descriptions
            ELSE /\ description_id \notin LockedByOthers(0)
                 /\ descriptions' = descriptions \ {description}
                 /\ last' = Reply("delete_description", current_user,
                                  property.id, 200,
                                  "Property description deleted successfully")
    /\ UNCHANGED <<properties, measurements, uploads, seq, sessions>>
    /\ UnchangedIdentities

(* increment_view_count up to "description.view_count += 1": no          *)
(* dependency on get_current_user; the description as first() loads it.    *)
BeginIncrement(w, description_id) ==
    /\ sessions[w].pc = "idle"
    /\ IF ById(descriptions, description_id) = {}
       THEN /\ last' = Reply("increment_view_count", NoRow, description_id,
                             404, "Property description not found")
            /\ UNCHANGED sessions
       ELSE \E description \in ById(descriptions, description_id) :
            /\ description.view_count < MaxViews
            /\ last' = Idle
            /\ sessions' = [sessions EXCEPT ![w] =
                    [NoSession EXCEPT !.pc = "writing",
                        !.op = "increment_view_count",
                        !.description = description,
                        !.target = description_id]]
    /\ UNCHANGED resourceVars
    /\ UnchangedIdentities

(* description.view_count += 1 adds in Python to the value that was        *)
(* loaded, and the commit flushes UPDATE ... SET view_count = that sum.    *)
increment_update(stored, loaded) ==
    [stored EXCEPT !.view_count = loaded.view_count + 1]

(* increment_view_count from "description.view_count += 1" to its return *)
CommitIncrement(w, commitOk) ==
    LET s == sessions[w] IN
    /\ s.pc = "writing"
    /\ s.op = "increment_view_count"
    /\ IF ~commitOk \/ ById(descriptions, s.description.id) = {}
       THEN /\ RolledBack(w)
            /\ UNCHANGED descriptions
       ELSE \E stored \in ById(descriptions, s.description.id) :
            /\ stored.id \notin LockedByOthers(w)
            /\ descriptions' = (descriptions \ {stored})
                    \cup {increment_update(stored, s.description)}
            /\ last' = Reply("increment_view_count", NoRow, s.target, 200,
                             "View count incremented")
            /\ sessions' = [sessions EXCEPT ![w] = NoSession]
    /\ UNCHANGED <<properties, measurements, uploads, seq>>
    /\ UnchangedIdentities

----------------------------------------------------------------------------
(* DELETE /properties/{property_id} *)

delete_not_authorized_agent_too(property, current_user) ==
    /\ property.owner_id # current_user.id
    /\ property.agent_id # current_user.id
    /\ current_user.role # "admin"

(* owner_id != current_user.id and role != ADMIN: the agent of the        *)
(* property is not let in.                                                 *)
delete_not_authorized(property, current_user) ==
    /\ property.owner_id # current_user.id
    /\ current_user.role # "admin"

(* relationship(..., cascade='all, delete-orphan') on Property.measurements *)
(* and Property.descriptions: db.delete(property) deletes them with it.    *)
Orphans(rows, property_id) == {r \in rows : r.property_id = property_id}

DeleteProperty(current_user, property_id) ==
    /\ IF ById(properties, property_id) = {}
       THEN /\ last' = Reply("delete_property", current_user, property_id,
                             404, "Property not found")
            /\ UNCHANGED <<properties, measurements, descriptions>>
       ELSE \E property \in ById(properties, property_id) :
            IF delete_not_authorized(property, current_user)
            THEN /\ last' = Reply("delete_property", current_user,
                                  property_id, 403, "Not authorized")
                 /\ UNCHANGED <<properties, measurements, descriptions>>
            ELSE /\ Orphans(descriptions, property_id)
                        \cap WithIds(descriptions, LockedByOthers(0)) = {}
                 /\ properties' = properties \ {property}
                 /\ measurements' =
                        measurements \ Orphans(measurements, property_id)
                 /\ descriptions' =
                        descriptions \ Orphans(descriptions, property_id)
                 /\ last' = Reply("delete_property", current_user,
                                  property_id, 200,
                                  "Property deleted successfully")
    /\ UNCHANGED <<uploads, seq>>
    /\ UnchangedUsers

----------------------------------------------------------------------------
(* SpecAuth: registration, login and the store's owner.  Login reads no    *)
(* clock and no last_login, so the clock stands still and no token is      *)
(* resolved.                                                               *)

NextAuth ==
    \/ \E un \in Usernames, em \in Emails, pw \in Passwords, ro \in Roles :
            RegisterUser(un, em, pw, ro)
    \/ \E ident \in Identifiers, pw \in Passwords : LoginForAccessToken(ident, pw)
    \/ \E id \in UserIds, flag \in BOOLEAN : AdminSetActive(id, flag)
    \/ \E id \in UserIds : AdminDeleteIdentity(id)

SpecAuth == Init /\ [][NextAuth]_vars

(* SpecToken: issuance and resolution of every kind of bearer token under *)
(* the clock.  get_current_user reads neither the role nor the password    *)
(* nor the active flag of a row, so identities register as clients with    *)
(* one password and stay active.                                           *)

TokenPasswords == {"pw1"}
TokenRoles == {"client"}

NextToken ==
    \/ \E un \in Usernames, em \in Emails, pw \in TokenPasswords, ro \in TokenRoles :
            RegisterUser(un, em, pw, ro)
    \/ \E ident \in Identifiers, pw \in TokenPasswords : LoginForAccessToken(ident, pw)
    \/ \E tok \in Presentable, commitOk \in BOOLEAN : GetMe(tok, commitOk)
    \/ \E tok \in Presentable, commitOk \in BOOLEAN : RefreshAccessToken(tok, commitOk)
    \/ \E t \in Instants : Tick(t)
    \/ \E id \in UserIds : AdminDeleteIdentity(id)

SpecToken == Init /\ [][NextToken]_vars

AgentIds == {NoUser} \cup {u.id : u \in users}

(* SpecPassword: identities that log in, change their password and go on   *)
(* presenting the tokens they hold.                                        *)

IssuedTokens == {g.tok : g \in issued}

(* The clock is observed once a lifetime, after the tokens of the lifetime *)
(* before have expired.                                                    *)
LateInstants ==
    {k * TtlTicks + SecondsToTicks(MaxExtraSeconds) : k \in 1..MaxLifetimes}

NextPassword ==
    \/ \E un \in Usernames, em \in Emails, pw \in Passwords, ro \in TokenRoles :
            RegisterUser(un, em, pw, ro)
    \/ \E ident \in Identifiers, pw \in Passwords : LoginForAccessToken(ident, pw)
    \/ \E tok \in IssuedTokens, cur \in Passwords, new \in Passwords,
            resolveOk \in BOOLEAN, commitOk \in BOOLEAN :
            ChangePassword(tok, cur, new, resolveOk, commitOk)
    \/ \E tok \in IssuedTokens, commitOk \in BOOLEAN : GetMe(tok, commitOk)
    \/ \E em \in Emails : ForgotPassword(em)
    \/ \E t \in LateInstants : Tick(t)

SpecPassword == Init /\ [][NextPassword]_vars

(* SpecRegister: registrations served by concurrent workers, and the       *)
(* store's owner deleting identities.                                      *)

NextRegister ==
    \/ \E w \in Workers, op \in {"register_user", "create_user"},
            un \in Usernames, em \in Emails, pw \in TokenPasswords,
            ro \in TokenRoles :
            LookupExisting(w, op, un, em, pw, ro)
    \/ \E w \in Workers : RegisterUserCommit(w)
    \/ \E w \in Workers : CreateUserBuild(w)
    \/ \E id \in UserIds : AdminDeleteIdentity(id)

SpecRegister == Init /\ [][NextRegister]_vars

(* SpecIssue: every way a token is made, under the clock. *)

Lifetimes == {0, ACCESS_TOKEN_EXPIRE_MINUTES}

NextIssue ==
    \/ \E un \in Usernames, em \in Emails, pw \in TokenPasswords, ro \in TokenRoles :
            RegisterUser(un, em, pw, ro)
    \/ \E ident \in Identifiers, pw \in TokenPasswords : LoginForAccessToken(ident, pw)
    \/ \E tok \in IssuedTokens, commitOk \in BOOLEAN :
            RefreshAccessToken(tok, commitOk)
    \/ \E sub \in Usernames, expires_minutes \in Lifetimes :
            CreateAccessToken(sub, expires_minutes)
    \/ \E t \in Instants : Tick(t)

SpecIssue == Init /\ [][NextIssue]_vars

(* SpecGuard: the guards evaluated on every identity of the store, with    *)
(* every role, active or not.  The guards read no password.                *)

NextGuard ==
    \/ \E un \in Usernames, em \in Emails, pw \in TokenPasswords, ro \in Roles :
            RegisterUser(un, em, pw, ro)
    \/ \E id \in UserIds, flag \in BOOLEAN : AdminSetActive(id, flag)
    \/ \E current_user \in users : GetCurrentActiveUser(current_user)
    \/ \E current_user \in users, allowed_roles \in SUBSET Roles :
            RequireRoles(allowed_roles, current_user)
    \/ \E current_user \in users : GetAdminUser(current_user)
    \/ \E current_user \in users : GetAgentUser(current_user)
    \/ \E current_user \in users, agent_id \in AgentIds, title \in Titles :
            CreateProperty(current_user, agent_id, title)
    \/ \E current_user \in users, id \in 1..MaxProperties, title \in Titles :
            UpdateProperty(current_user, id, title)

SpecGuard == Init /\ [][NextGuard]_vars

(* SpecResource: the handlers that modify a property and what hangs on it, *)
(* called by every identity of the store.  The handlers read neither the   *)
(* password nor the active flag of the caller.                             *)

NextResource ==
    \/ \E un \in Usernames, em \in Emails, pw \in TokenPasswords, ro \in Roles :
            RegisterUser(un, em, pw, ro)
    \/ \E current_user \in users, agent_id \in AgentIds, title \in Titles :
            CreateProperty(current_user, agent_id, title)
    \/ \E current_user \in users, id \in 1..MaxProperties, title \in Titles :
            UpdateProperty(current_user, id, title)
    \/ \E current_user \in users, id \in 1..MaxProperties, area \in Areas :
            CreateMeasurement(current_user, id, area)
    \/ \E current_user \in users, id \in 1..MaxMeasurements, area \in Areas :
            UpdateMeasurement(current_user, id, area)
    \/ \E current_user \in users, id \in 1..MaxMeasurements :
            DeleteMeasurement(current_user, id)
    \/ \E current_user \in users, id \in 1..MaxProperties :
            CreatePropertyDescription(current_user, id)
    \/ \E current_user \in users, id \in 1..MaxProperties :
            GenerateDescription(current_user, id)
    \/ \E current_user \in users, id \in 1..MaxDescriptions :
            ApprovePropertyDescription(current_user, id)
    \/ \E current_user \in users, id \in 1..MaxProperties, f \in Filenames,
            saveOk \in BOOLEAN :
            UploadPropertyPhoto(current_user, id, f, saveOk)

SpecResource == Init /\ [][NextResource]_vars

(* SpecConcurrent: token resolutions and password changes of one identity *)
(* served by concurrent processes.  The identity registers under a         *)
(* username that is no email, with the password of TokenPasswords, and     *)
(* changes it to one of NewPasswords.                                      *)

PlainUsernames == Usernames \ Emails
NewPasswords == Passwords \ TokenPasswords

NextConcurrent ==
    \/ \E un \in PlainUsernames, em \in Emails, pw \in TokenPasswords,
            ro \in TokenRoles :
            RegisterUser(un, em, pw, ro)
    \/ \E ident \in Identifiers, pw \in TokenPasswords : LoginForAccessToken(ident, pw)
    \/ \E w \in Workers, tok \in IssuedTokens : BeginRequest(w, "me", tok, "", "")
    \/ \E w \in Workers, tok \in IssuedTokens, cur \in Passwords,
            new \in NewPasswords :
            BeginRequest(w, "change_password", tok, cur, new)
    \/ \E w \in Workers, commitOk \in BOOLEAN : CommitLastLogin(w, commitOk)
    \/ \E w \in Workers : VerifyCurrentPassword(w)
    \/ \E w \in Workers, commitOk \in BOOLEAN : CommitPassword(w, commitOk)
    \/ \E t \in LateInstants : Tick(t)

SpecConcurrent == Init /\ [][NextConcurrent]_vars

(* SpecUsers: every operation that returns rows of users or answers a     *)
(* caller about its credentials, called by the identity that holds the     *)
(* token and by anyone.                                                    *)

NextUsers ==
    \/ \E un \in Usernames, em \in Emails, pw \in TokenPasswords, ro \in Roles :
            RegisterUser(un, em, pw, ro)
    \/ \E un \in Usernames, em \in Emails, pw \in TokenPasswords, ro \in Roles :
            CreateUser(un, em, pw, ro)
    \/ \E ident \in Identifiers, pw \in TokenPasswords : LoginForAccessToken(ident, pw)
    \/ \E tok \in IssuedTokens, commitOk \in BOOLEAN : GetMe(tok, commitOk)
    \/ \E tok \in IssuedTokens, commitOk \in BOOLEAN :
            RefreshAccessToken(tok, commitOk)
    \/ \E tok \in IssuedTokens, cur \in Passwords, new \in NewPasswords,
            resolveOk \in BOOLEAN, commitOk \in BOOLEAN :
            ChangePassword(tok, cur, new, resolveOk, commitOk)
    \/ \E em \in Emails : ForgotPassword(em)
    \/ \E tok \in IssuedTokens, commitOk \in BOOLEAN :
            GetCurrentUserProfile(tok, commitOk)
    \/ \E user_id \in UserIds : GetUser(user_id)
    \/ \E tok \in IssuedTokens, role \in RoleFilters, commitOk \in BOOLEAN :
            ListUsers(tok, role, commitOk)
    \/ ListAgents
    \/ \E id \in UserIds, flag \in BOOLEAN : AdminSetActive(id, flag)

SpecUsers == Init /\ [][NextUsers]_vars

(* SpecProfile: every operation that writes a row of users, called by an  *)
(* identity that registered under a username that is no email.             *)

NextProfile ==
    \/ \E un \in PlainUsernames, em \in Emails, pw \in TokenPasswords,
            ro \in Roles :
            RegisterUser(un, em, pw, ro)
    \/ \E un \in Usernames, em \in Emails, pw \in TokenPasswords, ro \in Roles :
            CreateUser(un, em, pw, ro)
    \/ \E ident \in Identifiers, pw \in TokenPasswords : LoginForAccessToken(ident, pw)
    \/ \E tok \in IssuedTokens, commitOk \in BOOLEAN : GetMe(tok, commitOk)
    \/ \E tok \in IssuedTokens, cur \in Passwords, new \in NewPasswords,
            resolveOk \in BOOLEAN, commitOk \in BOOLEAN :
            ChangePassword(tok, cur, new, resolveOk, commitOk)
    \/ \E tok \in IssuedTokens, user_update \in UserUpdates,
            resolveOk \in BOOLEAN, commitOk \in BOOLEAN :
            UpdateCurrentUser(tok, user_update, resolveOk, commitOk)

SpecProfile == Init /\ [][NextProfile]_vars

(* SpecDescriptions: the handlers that write descriptions, those that     *)
(* write is_active served statement by statement by concurrent workers,    *)
(* called by the owner of the property.                                    *)

NextDescriptions ==
    \/ \E un \in PlainUsernames, em \in Emails, pw \in TokenPasswords,
            ro \in TokenRoles :
            RegisterUser(un, em, pw, ro)
    \/ \E current_user \in users, agent_id \in AgentIds, title \in Titles :
            CreateProperty(current_user, agent_id, title)
    \/ \E current_user \in users, id \in 1..MaxProperties :
            CreatePropertyDescription(current_user, id)
    \/ \E w \in Workers, current_user \in users, id \in 1..MaxProperties :
            BeginGenerate(w, current_user, id)
    \/ \E w \in Workers, commitOk \in BOOLEAN : CommitGenerate(w, commitOk)
    \/ \E w \in Workers, current_user \in users, id \in 1..MaxDrafts :
            BeginApprove(w, current_user, id)
    \/ \E w \in Workers, commitOk \in BOOLEAN : CommitApprove(w, commitOk)
    \/ \E current_user \in users, id \in 1..MaxDrafts, title \in Titles :
            UpdatePropertyDescription(current_user, id, title)
    \/ \E current_user \in users, id \in 1..MaxDrafts :
            DeletePropertyDescription(current_user, id)

SpecDescriptions == Init /\ [][NextDescriptions]_vars

(* SpecViews: the views of a description counted by concurrent workers. *)

NextViews ==
    \/ \E un \in PlainUsernames, em \in Emails, pw \in TokenPasswords,
            ro \in TokenRoles :
            RegisterUser(un, em, pw, ro)
    \/ \E current_user \in users, agent_id \in AgentIds, title \in Titles :
            CreateProperty(current_user, agent_id, title)
    \/ \E current_user \in users, id \in 1..MaxProperties :
            CreatePropertyDescription(current_user, id)
    \/ \E w \in Workers, id \in 1..MaxDescriptions : BeginIncrement(w, id)
    \/ \E w \in Workers, commitOk \in BOOLEAN : CommitIncrement(w, commitOk)

SpecViews == Init /\ [][NextViews]_vars

(* SpecDelete: properties with an agent, a measurement and a description, *)
(* deleted by every identity of the store.                                 *)

NextDelete ==
    \/ \E un \in Usernames, em \in Emails, pw \in TokenPasswords, ro \in Roles :
            RegisterUser(un, em, pw, ro)
    \/ \E current_user \in users, agent_id \in AgentIds, title \in Titles :
            CreateProperty(current_user, agent_id, title)
    \/ \E current_user \in users, id \in 1..MaxProperties, area \in Areas :
            CreateMeasurement(current_user, id, area)
    \/ \E current_user \in users, id \in 1..MaxProperties :
            CreatePropertyDescription(current_user, id)
    \/ \E current_user \in users, id \in 1..MaxProperties :
            DeleteProperty(current_user, id)

SpecDelete == Init /\ [][NextDelete]_vars

----------------------------------------------------------------------------
(* Properties of authentication and login, checked under SpecAuth *)

(* The plaintext a row's digest was made from. *)
PasswordOf(u) == u.hashed_password.of

Names(u) == {u.username, u.email}

InvalidCredentials(r) ==
    /\ r.status = 401
    /\ r.detail = "Incorrect username or password"
    /\ r.uid = NoUser
    /\ r.out = NoToken

AccountDisabled(r) ==
    /\ r.status = 401
    /\ r.detail = "User account is disabled"
    /\ r.out = NoToken

(* C1: authenticate_user called with the username or the email of a        *)
(* registered identity X and X's password returns X itself, also when      *)
(* another identity's username equals X's email or the reverse.            *)
C1_AuthenticateReturnsIdentity ==
    last.op = "login" =>
        \A x \in users :
            (last.ident \in Names(x) /\ last.pw = PasswordOf(x)) => last.uid = x.id

UnknownIdentifier(l, us) ==
    /\ l.op = "login"
    /\ \A x \in us : l.ident \notin Names(x)

WrongPassword(l, us) ==
    /\ l.op = "login"
    /\ \E x \in us : l.ident \in Names(x)
    /\ \A x \in us : l.ident \in Names(x) => l.pw # PasswordOf(x)

(* C2: a login with an identifier that matches no identity and a login     *)
(* with a known identifier and a wrong password end in the same outcome,   *)
(* 401 "Incorrect username or password" with no identity and no token,     *)
(* and neither changes the identity store or the issued tokens.            *)
C2_FailuresIndistinguishable ==
    /\ [](UnknownIdentifier(last, users) \/ WrongPassword(last, users)
            => InvalidCredentials(last))
    /\ [][UnknownIdentifier(last', users') \/ WrongPassword(last', users')
            => users' = users /\ nextId' = nextId /\ issued' = issued]_vars

C2_Witness ==
    /\ WrongPassword(last, users)
    /\ InvalidCredentials(last)
    /\ \E x \in users : last.ident \notin Names(x)

(* C10: a login with the identifier and the password of an identity whose  *)
(* active flag is false is rejected with "User account is disabled" and    *)
(* issues no token; with a wrong password for that identity it is rejected *)
(* with "Incorrect username or password".                                  *)
C10_DisabledLogin ==
    last.op = "login" =>
        \A x \in users :
            (~x.is_active /\ last.ident \in Names(x)) =>
                IF last.pw = PasswordOf(x)
                THEN AccountDisabled(last)
                ELSE InvalidCredentials(last)

----------------------------------------------------------------------------
(* Properties of token resolution, checked under SpecToken *)

IsResolve(l) == l.op \in {"me", "refresh"}

(* The one rejection get_current_user has. *)
Rejected(l) ==
    /\ l.status = 401
    /\ l.detail = "Could not validate credentials"
    /\ l.uid = NoUser
    /\ l.out = NoToken

(* The identity a token was issued to is still in the store. *)
Exists(g) == \E x \in users : x.id = g.uid

(* The end of the lifetime of an issued token: issuance plus ttl. *)
Expiry(g) == g.iat + TtlTicks

(* C3: get_current_user on an unexpired token issued by login or refresh   *)
(* to identity X returns X and never another identity.                     *)
C3_TokenResolvesToItsIdentity ==
    (IsResolve(last) /\ last.status = 200) =>
        \A g \in issued :
            (g.tok = last.tok /\ Exists(g)) => last.uid = g.uid

SignatureAltered(l) ==
    /\ IsResolve(l)
    /\ l.tok.wellformed
    /\ l.tok.mac.flipped \/ l.tok.mac.key # SECRET_KEY

(* C5: a token whose signature segment differs from the one produced at    *)
(* issuance, or that was signed with another secret, is rejected as a      *)
(* signature mismatch: no identity is returned, no last-login is written   *)
(* and no token is issued.                                                 *)
C5_BadSignatureRejected ==
    /\ [](SignatureAltered(last) => (Rejected(last) /\ last.why = "BadSignature"))
    /\ [][SignatureAltered(last')
            => users' = users /\ lastResolved' = lastResolved /\ issued' = issued]_vars

C5_Witness ==
    /\ SignatureAltered(last)
    /\ Rejected(last)
    /\ \E g \in issued :
          /\ last.tok = FlipSignature(g.tok)
          /\ g.tok.exp >= now \div TicksPerSecond
          /\ Exists(g)

(* A resolution that failed in the token itself, and the reason in the     *)
(* taxonomy of the codec (a token without a subject counts as malformed).  *)
TokenFault(l) ==
    IsResolve(l) /\ l.why \in {"BadSignature", "Malformed", "NoSubject", "Expired"}

ReasonOf(l) == IF l.why = "NoSubject" THEN "Malformed" ELSE l.why

Shown(l) == <<l.status, l.detail>>

IdentityGoneCase(l, us, iss, nw) ==
    /\ IsResolve(l)
    /\ \E g \in iss :
          /\ g.tok = l.tok
          /\ g.tok.exp >= nw \div TicksPerSecond
          /\ \A x \in us : g.tok.sub \notin Names(x)

(* C7: when a token verifies but no identity matches its subject any more, *)
(* get_current_user rejects the request, returns no identity and writes    *)
(* nothing to the identity store.                                          *)
C7_IdentityGoneRejected ==
    /\ [](IdentityGoneCase(last, users, issued, now)
            => (Rejected(last) /\ last.why = "IdentityGone"))
    /\ [][IdentityGoneCase(last', users', issued', now')
            => users' = users /\ lastResolved' = lastResolved /\ issued' = issued]_vars

C7_Witness ==
    /\ IdentityGoneCase(last, users, issued, now)
    /\ Rejected(last)
    /\ users # {}

(* C8: a successful get_current_user has set the resolved identity's       *)
(* last_login to the current time in the store by the time the identity is *)
(* returned, and the last_login of every identity is null if it was never  *)
(* resolved and the time of its latest successful resolution otherwise.    *)
C8_LastLoginIsLatestResolution ==
    /\ \A u \in users : u.last_login = lastResolved[u.id]
    /\ (IsResolve(last) /\ last.status = 200) =>
            \E u \in users : u.id = last.uid /\ u.last_login = now

C8_Witness ==
    /\ IsResolve(last)
    /\ last.status = 200
    /\ \E u, v \in users :
          /\ u.id = last.uid
          /\ u.last_login = now
          /\ v.id # u.id
          /\ v.last_login \notin {NoTime, now}

(* C9: when persisting the last-login timestamp fails, the resolution      *)
(* still succeeds and returns the identity.                                *)
C9_CommitFailureTolerated ==
    (IsResolve(last) /\ last.why = "CommitFailed") =>
        (last.status = 200 /\ last.uid # NoUser)

----------------------------------------------------------------------------
(* Properties of the guards, checked under SpecGuard *)

IsGuard(l) == l.op \in {"active", "roles", "admin", "agent"}

InactiveUser(l) ==
    /\ l.status = 400
    /\ l.detail = "Inactive user"
    /\ l.uid = NoUser

Allowed(l, x) == l.status = 200 /\ l.uid = x.id

Forbidden(l) == l.status = 403 /\ l.uid = NoUser

(* C11: get_current_active_user fails with 400 "Inactive user" exactly     *)
(* when the resolved identity's active flag is false and otherwise returns *)
(* that identity, which it leaves as it was; require_roles, get_admin_user *)
(* and get_agent_user reject an inactive identity the same way whatever    *)
(* its role and whatever roles are allowed.                                *)
C11_InactiveRejectedFirst ==
    /\ [](IsGuard(last) =>
            \A x \in users :
                x.id = last.arg.caller =>
                    /\ ~x.is_active => InactiveUser(last)
                    /\ x.is_active => ~InactiveUser(last)
                    /\ (x.is_active /\ last.op = "active") => Allowed(last, x))
    /\ [][IsGuard(last') => users' = users]_vars

C11_Witness ==
    /\ last.op = "admin"
    /\ InactiveUser(last)
    /\ \E x \in users :
          x.id = last.arg.caller /\ ~x.is_active /\ x.role = "admin"

(* C12: for an active identity, require_roles(allowed) returns the         *)
(* identity iff its role is in allowed and otherwise fails with 403        *)
(* "Insufficient permissions"; get_admin_user decides as                   *)
(* require_roles({admin}) and get_agent_user as                            *)
(* require_roles({agent, admin}), each failing with 403.                   *)
C12_RoleChecks ==
    IsGuard(last) =>
        \A x \in users :
            (x.id = last.arg.caller /\ x.is_active) =>
                /\ last.op = "roles" =>
                        IF x.role \in last.arg.allowed
                        THEN Allowed(last, x)
                        ELSE Forbidden(last)
                                /\ last.detail = "Insufficient permissions"
                /\ last.op = "admin" =>
                        IF x.role \in {"admin"}
                        THEN Allowed(last, x) ELSE Forbidden(last)
                /\ last.op = "agent" =>
                        IF x.role \in {"agent", "admin"}
                        THEN Allowed(last, x) ELSE Forbidden(last)

C12_Witness ==
    /\ last.op = "agent"
    /\ Forbidden(last)
    /\ \E x, y \in users :
          /\ x.id = last.arg.caller /\ x.is_active /\ x.role = "client"
          /\ y.role = "admin"

(* C14: evaluating a guard (the active check, a role check, the            *)
(* owner-or-role comparison of update_property) on a resolved identity     *)
(* changes no stored state, every guard can be evaluated on every          *)
(* identity, and the evaluation ends either in the identity or in one      *)
(* rejection that returns none.                                            *)
C14_GuardsArePure ==
    /\ [](\A x \in users :
            /\ ENABLED GetCurrentActiveUser(x)
            /\ ENABLED GetAdminUser(x)
            /\ ENABLED GetAgentUser(x)
            /\ \A allowed \in SUBSET Roles : ENABLED RequireRoles(allowed, x)
            /\ \A id \in 1..MaxProperties, title \in Titles :
                    ENABLED UpdateProperty(x, id, title))
    /\ [](IsGuard(last) =>
            \/ last.status = 200 /\ last.uid = last.arg.caller
            \/ last.status \in {400, 403} /\ last.uid = NoUser)
    /\ [][(IsGuard(last') \/ (last'.op = "update_property" /\ last'.status = 403))
            => /\ users' = users /\ nextId' = nextId /\ issued' = issued
               /\ lastResolved' = lastResolved /\ pwChanged' = pwChanged
               /\ UNCHANGED resourceVars]_vars

C14_Witness ==
    /\ last.op = "update_property"
    /\ last.status = 403
    /\ \E x \in users : x.id = last.arg.caller /\ ~x.is_active

----------------------------------------------------------------------------
(* Properties of the resource handlers, checked under SpecResource *)

IsModify(l) ==
    /\ l.op \in {"update_property", "create_measurement", "update_measurement",
                 "delete_measurement", "create_description",
                 "generate_description", "approve_description", "upload_photo"}
    /\ l.status # 404

(* The caller is the owner or the assigned agent of the property, or an    *)
(* admin.                                                                  *)
MayModify(p, x) == x.id \in {p.owner_id, p.agent_id} \/ x.role = "admin"

(* C13 as claimed: a modifying operation on a property is permitted iff    *)
(* the caller is the property's owner or agent or has role admin, and any  *)
(* other caller is rejected with 403 "Not authorized" and the resource is  *)
(* left as it was.                                                         *)
C13_OwnerAgentOrAdmin ==
    /\ [](IsModify(last) =>
            \A p \in properties, x \in users :
                (p.id = last.arg.target /\ x.id = last.arg.caller) =>
                    IF MayModify(p, x)
                    THEN last.status # 403
                    ELSE last.status = 403 /\ last.detail = "Not authorized")
    /\ [][(IsModify(last') /\ last'.status = 403) => UNCHANGED resourceVars]_vars

NotAuthorizedDetail(op) ==
    IF op = "upload_photo"
    THEN "Not authorized to upload for this property"
    ELSE "Not authorized"

(* C13 as amended: the same, except that the rejection of a photo upload   *)
(* reads "Not authorized to upload for this property"; a permitted         *)
(* operation succeeds unless the uploaded file cannot be saved.            *)
C13_OwnerAgentOrAdminPerHandler ==
    /\ [](IsModify(last) =>
            \A p \in properties, x \in users :
                (p.id = last.arg.target /\ x.id = last.arg.caller) =>
                    IF MayModify(p, x)
                    THEN last.status = 200
                            \/ (last.op = "upload_photo" /\ last.status = 500)
                    ELSE /\ last.status = 403
                         /\ last.detail = NotAuthorizedDetail(last.op)
                         /\ last.uid = NoUser)
    /\ [][(IsModify(last') /\ last'.status = 403) => UNCHANGED resourceVars]_vars

C13_Witness ==
    /\ last.op = "update_measurement"
    /\ last.status = 200
    /\ \E p \in properties, x \in users :
          /\ p.id = last.arg.target /\ x.id = last.arg.caller
          /\ x.id = p.agent_id /\ x.id # p.owner_id /\ x.role = "client"

----------------------------------------------------------------------------
(* Properties of the password change, checked under SpecPassword *)

(* A change_password request that got past get_current_user, made as the   *)
(* identity x with a current password other than x's. *)
WrongCurrent(l, x) ==
    /\ l.op = "change_password"
    /\ l.arg.caller = x.id
    /\ l.pw # PasswordOf(x)

IncorrectCurrentPassword(l) ==
    /\ l.status = 400
    /\ l.detail = "Incorrect current password"
    /\ l.uid = NoUser

(* C15 as claimed: change_password with a current password that does not   *)
(* verify fails with 400 "Incorrect current password" and leaves the       *)
(* stored hash as it was: the old password still verifies against it and   *)
(* the proposed new password does not.                                     *)
C15_WrongCurrentKeepsHash ==
    [][\A x \in users :
          WrongCurrent(last', x) =>
              /\ IncorrectCurrentPassword(last')
              /\ \E y \in users' :
                    /\ y.id = x.id
                    /\ y.hashed_password = x.hashed_password
                    /\ PasswordOf(y) = PasswordOf(x)
                    /\ PasswordOf(y) # last'.arg.new]_vars

(* C15 as amended: the same, except that the proposed new password does    *)
(* not verify afterwards unless it is the password already stored.         *)
C15_WrongCurrentKeepsHashOnly ==
    [][\A x \in users :
          WrongCurrent(last', x) =>
              /\ IncorrectCurrentPassword(last')
              /\ \E y \in users' :
                    /\ y.id = x.id
                    /\ y.hashed_password = x.hashed_password
                    /\ PasswordOf(y) = PasswordOf(x)
                    /\ last'.arg.new # PasswordOf(x)
                            => PasswordOf(y) # last'.arg.new]_vars

C15_Witness ==
    /\ IncorrectCurrentPassword(last)
    /\ \E x \in users :
          /\ WrongCurrent(last, x)
          /\ pwChanged[x.id].changed
          /\ last.pw = pwChanged[x.id].old
          /\ last.arg.new # PasswordOf(x)

(* C16: after a successful change_password(current, new) with new other    *)
(* than current, and until the identity's next successful change,          *)
(* authenticate_user with one of the identity's names and the new password *)
(* returns the identity, and with the old password fails with "Incorrect   *)
(* username or password".                                                  *)
C16_NewPasswordReplacesOld ==
    last.op = "login" =>
        \A x \in users :
            (/\ last.ident \in Names(x)
             /\ pwChanged[x.id].changed
             /\ pwChanged[x.id].new # pwChanged[x.id].old) =>
                /\ last.pw = pwChanged[x.id].new => last.uid = x.id
                /\ last.pw = pwChanged[x.id].old => InvalidCredentials(last)

(* C17: a token that was issued before its identity changed its password,  *)
(* or before the identity was issued another token, still resolves to that *)
(* identity as long as it has not expired and the identity exists.         *)
C17_OutstandingTokensSurvive ==
    IsResolve(last) =>
        \A g \in outlived :
            (/\ g.tok = last.tok
             /\ Exists(g)
             /\ g.tok.exp >= now \div TicksPerSecond) =>
                (last.status = 200 /\ last.uid = g.uid)

(* C18: forgot_password answers 200 with the same message whether or not   *)
(* the email belongs to an identity, and changes neither the identity      *)
(* store nor the issued tokens.                                            *)
C18_ResetAcknowledgedAlike ==
    /\ [](last.op = "forgot_password" =>
            /\ last.status = 200
            /\ last.detail =
                 "If this email is registered, you will receive a password reset link."
            /\ last.uid = NoUser
            /\ last.out = NoToken)
    /\ [][last'.op = "forgot_password"
            => users' = users /\ nextId' = nextId /\ issued' = issued]_vars

C18_Witness ==
    /\ last.op = "forgot_password"
    /\ last.status = 200
    /\ users # {}
    /\ \A x \in users : x.email # last.ident

----------------------------------------------------------------------------
(* Properties of registration, checked under SpecRegister *)

Taken(req, us) == \E u \in us : u.username = req.username \/ u.email = req.email

(* C19: whatever register_user and create_user requests interleave, no two *)
(* identities share a username, an email or an id, and a registration      *)
(* whose username or email is taken when it reaches the store creates no   *)
(* identity and leaves the store as it was.                                *)
C19_UniqueNames ==
    /\ [](\A u, v \in users :
            u # v => /\ u.username # v.username
                     /\ u.email # v.email
                     /\ u.id # v.id)
    /\ [][\A w \in Workers :
            (/\ inflight[w].pc = "checked"
             /\ inflight'[w].pc = "idle"
             /\ Taken(inflight[w], users)) => users' = users]_vars
    /\ [][(last'.op \in {"register_user", "create_user"} /\ last'.status # 200)
            => users' = users]_vars

C19_Witness ==
    /\ last.op = "register_user"
    /\ last.why = "IntegrityError"
    /\ \E u \in users : u.username = last.ident
    /\ \E w \in Workers : inflight[w].pc = "checked"

----------------------------------------------------------------------------
(* Properties of token issuance, checked under SpecIssue *)

(* C20: a token made without an explicit lifetime expires 30 minutes after *)
(* it was made, and a token issued by login or refresh expires             *)
(* ACCESS_TOKEN_EXPIRE_MINUTES after its issuance (the expiry is a whole   *)
(* number of seconds).                                                     *)
C20_ThirtyMinuteLifetime ==
    /\ (last.op = "create_access_token" /\ last.arg.target = 0) =>
            last.out.exp = timegm(now + SecondsToTicks(30 * 60))
    /\ (last.op \in {"login", "refresh"} /\ last.status = 200) =>
            last.out.exp = timegm(now + SecondsToTicks(ACCESS_TOKEN_EXPIRE_MINUTES * 60))

----------------------------------------------------------------------------
(* Properties of the login response, checked under SpecAuth *)

(* C21: a login that succeeds returns token_type "bearer" and a token      *)
(* whose subject is the username of the identity authenticate_user         *)
(* returned, whichever of its two names the caller typed; that identity is *)
(* active and the password typed verifies against its hash; a login that   *)
(* fails returns no token.                                                 *)
C21_LoginReturnsBearerForIdentity ==
    last.op = "login" =>
        IF last.status = 200
        THEN /\ last.detail = "bearer"
             /\ last.out # NoToken
             /\ \E u \in users :
                    /\ u.id = last.uid
                    /\ last.ident \in Names(u)
                    /\ last.out.sub = u.username
                    /\ last.pw = PasswordOf(u)
                    /\ u.is_active
        ELSE last.out = NoToken

(* A login by email has succeeded. *)
C21_Witness ==
    /\ last.op = "login"
    /\ last.status = 200
    /\ \E u \in users :
            /\ u.id = last.uid
            /\ last.ident = u.email
            /\ last.ident # u.username

----------------------------------------------------------------------------
(* Properties of concurrent requests on one identity, checked under        *)
(* SpecConcurrent                                                          *)

(* The step of worker w commits the last_login of a token resolution. *)
LastLoginCommitted(w) ==
    /\ sessions[w].pc = "loaded"
    /\ \/ sessions'[w].pc = "resolved"
       \/ sessions'[w].pc = "idle" /\ last'.status = 200

(* The step of worker w commits the new hash of a password change. *)
PasswordCommitted(w) ==
    /\ sessions[w].pc = "verified"
    /\ sessions'[w].pc = "idle"
    /\ last'.status = 200

(* C22: when a token resolution and a password change of one identity      *)
(* interleave, each commit writes its own column of the stored row and     *)
(* leaves the other: the commit of last_login changes last_login and       *)
(* updated_at and keeps the hash that is stored, also one stored after the *)
(* request loaded the row, and the commit of the new hash keeps the        *)
(* last_login that is stored.                                              *)
C22_BothUpdatesTakeEffect ==
    [][\A w \in Workers : \A u \in ById(users, sessions[w].user.id) :
        /\ LastLoginCommitted(w) =>
              [u EXCEPT !.last_login = now, !.updated_at = now] \in users'
        /\ PasswordCommitted(w) =>
              \E v \in ById(users', u.id) :
                  /\ v.hashed_password =
                        get_password_hash(sessions[w].new_password)
                  /\ v.last_login = u.last_login]_vars

(* A resolution has just committed its last_login on a row whose hash      *)
(* another request, by now answered, replaced after the resolution had     *)
(* loaded the row.                                                         *)
C22_Witness ==
    \E w \in Workers : \E u \in ById(users, sessions[w].user.id) :
        /\ sessions[w].pc = "resolved"
        /\ last = Idle
        /\ \A o \in Workers \ {w} : sessions[o].pc = "idle"
        /\ pwChanged[u.id].changed
        /\ u.hashed_password # sessions[w].user.hashed_password
        /\ u.hashed_password = get_password_hash(pwChanged[u.id].new)
        /\ u.last_login = now

(* C26: change_password replaces the hash only if the current password    *)
(* supplied verifies against the hash that is stored at the moment of the  *)
(* replacement, so of two concurrent requests that both supply the         *)
(* original password at most one succeeds.                                 *)
C26_VerifiedAtReplacement ==
    [][\A w \in Workers : \A u \in ById(users, sessions[w].user.id) :
        PasswordCommitted(w) =>
            verify_password(sessions[w].current_password,
                            u.hashed_password)]_vars

----------------------------------------------------------------------------
(* Properties of what a token resolution writes, checked under SpecToken *)

(* u and v are one row but for the columns of the set cols. *)
SameBut(u, v, cols) ==
    \A c \in (DOMAIN u) \ cols : u[c] = v[c]

(* C23 as stated: a resolution changes no column of the row it resolves    *)
(* other than last_login, and no other row.                                *)
C23_OnlyLastLoginChanges ==
    [][IsResolve(last') =>
        \A u \in users :
            IF last'.status = 200 /\ u.id = last'.uid
            THEN \E v \in users' : v.id = u.id /\ SameBut(u, v, {"last_login"})
            ELSE u \in users']_vars

(* C23: a resolution changes no column of the row it resolves other than   *)
(* last_login and updated_at: username, email, password hash, role,        *)
(* active flag, verified flag and the profile columns are the same before  *)
(* and after; no other row changes, and a rejected token changes no row.   *)
C23_OnlyLastLoginAndUpdatedAtChange ==
    [][IsResolve(last') =>
        /\ \A u \in users :
            IF last'.status = 200 /\ u.id = last'.uid
            THEN \E v \in users' :
                    /\ v.id = u.id
                    /\ SameBut(u, v, {"last_login", "updated_at"})
            ELSE u \in users'
        /\ {v.id : v \in users'} = {u.id : u \in users}]_vars

(* A token has been resolved at an instant later than the registration of  *)
(* its identity, and the row carries that instant.                         *)
C23_Witness ==
    /\ IsResolve(last)
    /\ last.status = 200
    /\ now > 0
    /\ \E u \in users :
        u.id = last.uid /\ u.last_login = now /\ u.updated_at = now

----------------------------------------------------------------------------
(* Properties of what the responses show, checked under SpecUsers *)

(* The operations that answer with a token or a message and no row. *)
AnswersWithoutRows ==
    {"login", "refresh", "change_password", "forgot_password", "create_user"}

(* C24: no response carries the password hash of an identity: the rows     *)
(* that register, /auth/me, /users/me, get_user, list_users and            *)
(* list_agents return are serialised without the hashed_password column,   *)
(* and login, refresh, change_password, forgot_password and create_user    *)
(* return no row at all.                                                   *)
C24_NoHashInResponse ==
    /\ \A b \in last.body : "hashed_password" \notin DOMAIN b
    /\ last.op \in AnswersWithoutRows => last.body = {}

(* An admin has listed the two identities of the store. *)
C24_Witness ==
    /\ last.op = "list_users"
    /\ last.status = 200
    /\ Cardinality(last.body) > 1
    /\ \A u \in users : \E b \in last.body : b.id = u.id

(* C25: a token is issued, by login or by refresh, only to an identity     *)
(* whose active flag is true at the issuance; an identity that was         *)
(* deactivated while it held an unexpired token obtains no fresh one.      *)
C25_NoTokenForInactive ==
    (last.op \in {"login", "refresh"} /\ last.status = 200) =>
        \E u \in users : u.id = last.uid /\ u.is_active

----------------------------------------------------------------------------
(* Properties of what the operations write to users, checked under         *)
(* SpecProfile                                                             *)

(* No step changes the role of a row that exists. *)
RoleKept ==
    \A u \in users : \A v \in users' : v.id = u.id => v.role = u.role

(* The columns that every request with a token and every UPDATE stamp. *)
Stamps == {"last_login", "updated_at"}

(* C27 as stated: a request of update_current_user changes no column but   *)
(* first_name, last_name, phone_number and profile_image_url, and no       *)
(* operation changes the role of an identity.                              *)
C27_OnlyProfileColumnsChange ==
    /\ [][last'.op = "update_current_user" =>
            \A u \in users : \E v \in users' :
                v.id = u.id /\ SameBut(u, v, ProfileColumns)]_vars
    /\ [][RoleKept]_vars

(* C27: a request of update_current_user changes, of the caller's row, no  *)
(* column but first_name, last_name, phone_number and profile_image_url    *)
(* and the stamps last_login and updated_at: role, active flag, verified   *)
(* flag, username, email and password hash stay; it changes no other row;  *)
(* and no operation changes the role of an identity.                       *)
C27_OnlyProfileColumnsAndStampsChange ==
    /\ [][last'.op = "update_current_user" =>
            /\ \A u \in users : \E v \in users' :
                    /\ v.id = u.id
                    /\ SameBut(u, v, ProfileColumns \cup Stamps)
                    /\ (last'.status = 200 /\ u.id # last'.uid) => v = u
            /\ Cardinality(users \ users') <= 1
            /\ Cardinality(users') = Cardinality(users)]_vars
    /\ [][RoleKept]_vars

(* An identity that is no client has set its first name and kept its role. *)
C27_Witness ==
    /\ last.op = "update_current_user"
    /\ last.status = 200
    /\ \E u \in users :
        /\ u.id = last.uid
        /\ u.first_name \in ProfileValues
        /\ u.role # "client"

----------------------------------------------------------------------------
(* Properties of the descriptions of a property, checked under             *)
(* SpecDescriptions                                                        *)

ActiveOf(property_id) ==
    {d \in descriptions : d.property_id = property_id /\ d.is_active}

(* C28: whatever generate, create, update, approve and delete of           *)
(* descriptions have done, interleaved or not, a property has at most one  *)
(* description with is_active true, and a description with is_approved     *)
(* true has an approved_by_id.                                             *)
C28_OneActiveApprovedBySomeone ==
    /\ \A id \in 1..MaxProperties : Cardinality(ActiveOf(id)) <= 1
    /\ \A d \in descriptions : d.is_approved => d.approved_by_id # NoUser

----------------------------------------------------------------------------
(* Properties of the view counter, checked under SpecViews *)

(* The step of worker w commits an increment that is answered with 200. *)
IncrementCommitted(w) ==
    /\ sessions[w].pc = "writing"
    /\ sessions[w].op = "increment_view_count"
    /\ sessions'[w].pc = "idle"
    /\ last'.status = 200

(* C29: every increment_view_count that succeeds leaves view_count one     *)
(* higher than it found it stored, so that n successful calls, however     *)
(* interleaved, raise it by exactly n: no increment is lost.               *)
C29_NoIncrementLost ==
    [][\A w \in Workers : \A d \in ById(descriptions, sessions[w].description.id) :
        IncrementCommitted(w) =>
            \E e \in ById(descriptions', d.id) :
                e.view_count = d.view_count + 1]_vars

----------------------------------------------------------------------------
(* Properties of the deletion of a property, checked under SpecDelete *)

(* C30: delete_property on a property that exists removes it, with every   *)
(* measurement and description that references it, when the caller is its  *)
(* owner or an admin; it rejects the agent of the property and every other *)
(* caller with 403 "Not authorized" and leaves the property, its           *)
(* measurements and its descriptions in place.                             *)
C30_OnlyOwnerOrAdminDeletes ==
    [][last'.op = "delete_property" =>
        \A p \in ById(properties, last'.arg.target) :
        \A u \in ById(users, last'.arg.caller) :
            IF p.owner_id = u.id \/ u.role = "admin"
            THEN /\ last'.status = 200
                 /\ ById(properties', p.id) = {}
                 /\ Orphans(measurements', p.id) = {}
                 /\ Orphans(descriptions', p.id) = {}
            ELSE /\ last'.status = 403
                 /\ last'.detail = "Not authorized"
                 /\ UNCHANGED <<properties, measurements, descriptions>>]_vars

(* The agent of a property with a measurement and a description has been   *)
(* refused its deletion.                                                   *)
C30_Witness ==
    /\ last.op = "delete_property"
    /\ last.status = 403
    /\ \E p \in ById(properties, last.arg.target) :
        /\ p.agent_id = last.arg.caller
        /\ p.owner_id # last.arg.caller
        /\ Orphans(measurements, p.id) # {}
        /\ Orphans(descriptions, p.id) # {}

====
